---- MODULE Spec2Model ----
(***************************************************************************)
(* Jack compiler (NAND2TETRIS-JackCompiler): a model of the GlobalRegistry *)
(* (GlobalRegistry.cpp / GlobalRegistry.h) under concurrent callers, and   *)
(* of the build driver (main.cpp) with its three task phases.              *)
(*                                                                         *)
(*   SpecReg : worker threads calling the GlobalRegistry API, with the     *)
(*             std::scoped_lock of every operation as separate steps.      *)
(*   Spec    : the build driver main(): parse tasks, the Main-entry check, *)
(*             analyze tasks, generate tasks, and exception unwinding.     *)
(***************************************************************************)
EXTENDS Integers, Sequences, FiniteSets, TLC

(***************************************************************************)
(* Bounds of the model.                                                    *)
(***************************************************************************)
\* Number of worker threads calling the registry API in SpecReg.
NThreads == 2
\* Total number of registry API calls made in one run of SpecReg.
MaxCalls == 3
\* Longest list of positional .jack arguments given to the driver.
MaxFiles == 2

(***************************************************************************)
(* Value domains.                                                          *)
(***************************************************************************)
\* Class names a source file can declare (identifiers).
RegNames == {"Main", "A"}
\* Names classExists answers for without looking at the class set.
BuiltinNames == {"int", "char", "boolean", "float", "void"}
\* The primitive type names of the language, as documented for classExists.
PrimitiveNames == {"int", "char", "boolean", "void"}
\* Names a caller may ask classExists about.
QueryNames == RegNames \cup BuiltinNames
MethodNames == {"main", "new"}
SubroutineTypes == {"CONSTRUCTOR", "FUNCTION", "METHOD"}
ReturnTypes == {"void", "int"}
\* MethodSignature, reduced to the members the driver and registry read.
Signatures == [subKind : SubroutineTypes, returnType : ReturnTypes]
NoSig == [subKind |-> "none", returnType |-> "none"]
\* Signatures the registry's direct callers pass: two that differ in every member.
ApiSignatures == {[subKind |-> "FUNCTION", returnType |-> "void"],
                  [subKind |-> "METHOD", returnType |-> "int"]}
Threads == 1 .. NThreads
NoThread == 0

VARIABLES
    \* ---- GlobalRegistry members
    classes,      \* std::unordered_set<string_view> classes
    methods,      \* std::unordered_map<string_view, unordered_map<string_view, MethodSignature>>
    mtx,          \* std::mutex mtx: the thread holding it, or NoThread
    \* ---- registry callers (SpecReg)
    pc,           \* per thread: "idle", "lock", "body", "ret"
    op,           \* per thread: the operation being executed
    arg,          \* per thread: [cls, mth, sig] of the call
    res,          \* per thread: [b, sig, thrown, n] the call's result
    calls,        \* number of API calls started so far
    trueRet,      \* history: per class name, how many registerClass calls returned true
    won,          \* history: per (class, method), signatures of registerMethod calls that returned true
    \* ---- build driver (Spec)
    userFiles,    \* std::vector<std::string> userFiles
    dpc,          \* position of main()
    di,           \* loop index of main()'s current loop
    parseTasks,   \* per userFiles index: state of the parse task / its future
    units,        \* std::vector<CompilationUnit> units
    analysisTasks,\* per unit: state of the analyze task
    compileTasks, \* per unit: state of the generate task
    outputs,      \* per file name: state of the .vm file written alongside
    parseErrs,    \* history: some parse task finished with a non-empty error list
    mainCheck,    \* outcome of validateMainEntry: "none", "ok", "failed"
    exitCode,     \* -1 while running, else main's return value
    regAtBarrier, \* history: <<classes, methods>> when the parse barrier was passed
    argv,         \* argv[1..argc-1], the command line of main()
    report,       \* what main() has written as its verdict: "none" or the message
    \* ---- Tokenizer and PrattParser (SpecParse)
    toks,         \* the tokens of the source file, in order, without the final Eof
    tpos,         \* Tokenizer: index of the current token; Len(toks) + 1 is Eof
    perrs,        \* PrattParser::errors, each [at |-> token index, msg |-> message]
    ppc,          \* what has been run on the tokenizer: "start", "synced", "expr", "parsed"
    past,         \* the node handed back by parseExpression() or parse()
    \* ---- TypeRegistry (SpecTypes)
    pool,         \* TypeRegistry::pool: address |-> the Type stored there
    typRet,       \* history: per getOrCreate call, [type |-> argument, ptr |-> result]
    \* ---- SymbolTable (SpecSym)
    classScope,       \* name |-> Symbol, the Static and Field symbols
    subRoutineScope,  \* name |-> Symbol, the Arg and Local symbols
    indices,          \* SymbolKind |-> next index
    symThrew,         \* outcome of the last define: "none", "ok", "thrown"
    symOps,           \* number of SymbolTable calls made so far
    symLog,           \* history: SymbolKind |-> the indices handed out, in order
    symCall,          \* history: the name and kind of the last define call
    symCleared        \* history: the names the last startSubroutine took out of scope

regVars == <<classes, methods>>
apiVars == <<mtx, pc, op, arg, res, calls, trueRet, won>>
drvVars == <<userFiles, dpc, di, parseTasks, units, analysisTasks,
             compileTasks, outputs, parseErrs, mainCheck, exitCode, regAtBarrier,
             argv, report>>
parVars == <<toks, tpos, perrs, ppc, past>>
typVars == <<pool, typRet>>
symVars == <<classScope, subRoutineScope, indices, symThrew, symOps, symLog, symCall,
             symCleared>>
libVars == <<parVars, typVars, symVars>>
vars == <<regVars, apiVars, drvVars, libVars>>

(***************************************************************************)
(* GlobalRegistry: the operations as functions of the members.             *)
(***************************************************************************)
EmptyMap == [x \in {} |-> NoSig]

\* unordered_map::emplace / operator[] on a key: the map with key k bound to v.
MapPut(f, k, v) == [x \in (DOMAIN f) \cup {k} |-> IF x = k THEN v ELSE f[x]]

HasMethod(mth, className, methodName) ==
    className \in DOMAIN mth /\ methodName \in DOMAIN mth[className]

\* A registerClass that inserts without looking: every call reports success.
registerClass_nocheck(cls, className) ==
    [ret |-> TRUE, classes |-> cls \cup {className}]

registerClass(cls, className) ==
    IF className \in cls
    THEN [ret |-> FALSE, classes |-> cls]
    ELSE [ret |-> TRUE, classes |-> cls \cup {className}]

\* A registerMethod that assigns over an existing entry before reporting the duplicate.
registerMethod_overwrite(mth, className, methodName, sig) ==
    LET classMethods == IF className \in DOMAIN mth THEN mth[className] ELSE EmptyMap
    IN  [ret |-> methodName \notin DOMAIN classMethods,
         methods |-> MapPut(mth, className, MapPut(classMethods, methodName, sig))]

registerMethod(mth, className, methodName, sig) ==
    LET classMethods == IF className \in DOMAIN mth THEN mth[className] ELSE EmptyMap
    IN  IF methodName \in DOMAIN classMethods
        THEN [ret |-> FALSE, methods |-> MapPut(mth, className, classMethods)]
        ELSE [ret |-> TRUE,
              methods |-> MapPut(mth, className, MapPut(classMethods, methodName, sig))]

\* The early return of classExists: true without touching the class set.
IsBuiltin(className) == className \in BuiltinNames

classExists(cls, className) ==
    IF IsBuiltin(className) THEN TRUE ELSE className \in cls

methodExists(mth, className, methodName) ==
    IF className \notin DOMAIN mth THEN FALSE ELSE methodName \in DOMAIN mth[className]

\* A getSignature that looks the class up with operator[] (as registerMethod does).
getSignature_subscript(mth, className, methodName) ==
    IF HasMethod(mth, className, methodName)
    THEN [thrown |-> FALSE, sig |-> mth[className][methodName], methods |-> mth]
    ELSE [thrown |-> TRUE, sig |-> NoSig,
          methods |-> IF className \in DOMAIN mth THEN mth
                      ELSE MapPut(mth, className, EmptyMap)]

\* methods.at(className).at(methodName): std::out_of_range when either is absent.
getSignature(mth, className, methodName) ==
    IF HasMethod(mth, className, methodName)
    THEN [thrown |-> FALSE, sig |-> mth[className][methodName], methods |-> mth]
    ELSE [thrown |-> TRUE, sig |-> NoSig, methods |-> mth]

getClassCount(cls) == Cardinality(cls)

isStatic(sig) == sig.subKind = "FUNCTION" \/ sig.subKind = "CONSTRUCTOR"

\* Number of (class, method) entries dumpToJSON writes.
RECURSIVE CountEntries(_, _)
CountEntries(mth, cs) ==
    IF cs = {} THEN 0
    ELSE LET c == CHOOSE x \in cs : TRUE
         IN  Cardinality(DOMAIN mth[c]) + CountEntries(mth, cs \ {c})

dumpToJSON(mth) == CountEntries(mth, DOMAIN mth)

(***************************************************************************)
(* SpecReg: threads calling the GlobalRegistry API.  A call is             *)
(*   idle -> lock (waiting for mtx) -> body (inside the function body,     *)
(*   reading or writing the members) -> ret (result computed, scoped_lock  *)
(*   not yet destroyed) -> idle.                                           *)
(***************************************************************************)
NoArg == [cls |-> "-", mth |-> "-", sig |-> NoSig]
NoRes == [b |-> FALSE, sig |-> NoSig, thrown |-> FALSE, n |-> 0]

Ops == {"registerClass", "registerMethod", "classExists", "methodExists",
        "getSignature", "getClassCount", "dumpToJSON"}

\* Operations whose body starts with std::scoped_lock lock(mtx).
LocksFirst(o) == o \in {"registerClass", "registerMethod", "methodExists", "getSignature"}

RegInit ==
    /\ classes = {}
    /\ methods = [x \in {} |-> EmptyMap]

ApiInit ==
    /\ mtx = NoThread
    /\ pc = [t \in Threads |-> "idle"]
    /\ op = [t \in Threads |-> "none"]
    /\ arg = [t \in Threads |-> NoArg]
    /\ res = [t \in Threads |-> NoRes]
    /\ calls = 0
    /\ trueRet = [c \in RegNames |-> 0]
    /\ won = [c \in RegNames |-> [m \in MethodNames |-> <<>>]]

\* A thread enters an operation: everything up to its first access of mtx or the
\* members.  The arguments of a call are recorded in arg when the body reads them.
RegCall(t) ==
    /\ pc[t] = "idle"
    /\ calls < MaxCalls
    /\ \E o \in Ops :
         /\ op' = [op EXCEPT ![t] = o]
         /\ \/ /\ LocksFirst(o)
               /\ pc' = [pc EXCEPT ![t] = "lock"]
               /\ UNCHANGED <<arg, res>>
            \/ \* classExists: built-ins return true before the lock is taken
               /\ o = "classExists"
               /\ \E c \in QueryNames :
                    /\ arg' = [arg EXCEPT ![t] = [NoArg EXCEPT !.cls = c]]
                    /\ pc' = [pc EXCEPT ![t] = IF IsBuiltin(c) THEN "ret" ELSE "lock"]
                    /\ res' = [res EXCEPT ![t] = [NoRes EXCEPT !.b = IsBuiltin(c)]]
            \/ \* getClassCount: no lock, straight to classes.size()
               /\ o = "getClassCount"
               /\ pc' = [pc EXCEPT ![t] = "body"]
               /\ UNCHANGED <<arg, res>>
            \/ \* dumpToJSON: returns at once when the file cannot be opened
               /\ o = "dumpToJSON"
               /\ \E opened \in BOOLEAN :
                    pc' = [pc EXCEPT ![t] = IF opened THEN "lock" ELSE "ret"]
               /\ UNCHANGED <<arg, res>>
    /\ calls' = calls + 1
    /\ UNCHANGED <<regVars, mtx, trueRet, won, drvVars, libVars>>

\* std::scoped_lock lock(mtx): blocks until the mutex is free.
RegLock(t) ==
    /\ pc[t] = "lock"
    /\ mtx = NoThread
    /\ mtx' = t
    /\ pc' = [pc EXCEPT ![t] = "body"]
    /\ UNCHANGED <<regVars, op, arg, res, calls, trueRet, won, drvVars, libVars>>

RegisterClassStep(t) ==
    /\ pc[t] = "body" /\ op[t] = "registerClass"
    /\ \E c \in RegNames :
         LET r == registerClass(classes, c)
         IN  /\ classes' = r.classes
             /\ arg' = [arg EXCEPT ![t] = [NoArg EXCEPT !.cls = c]]
             /\ res' = [res EXCEPT ![t] = [NoRes EXCEPT !.b = r.ret]]
             /\ trueRet' = [trueRet EXCEPT ![c] = @ + (IF r.ret THEN 1 ELSE 0)]
    /\ pc' = [pc EXCEPT ![t] = "ret"]
    /\ UNCHANGED <<methods, mtx, op, calls, won, drvVars, libVars>>

RegisterMethodStep(t) ==
    /\ pc[t] = "body" /\ op[t] = "registerMethod"
    /\ \E c \in RegNames, m \in MethodNames, s \in ApiSignatures :
         LET r == registerMethod(methods, c, m, s)
         IN  /\ methods' = r.methods
             /\ arg' = [arg EXCEPT ![t] = [cls |-> c, mth |-> m, sig |-> s]]
             /\ res' = [res EXCEPT ![t] = [NoRes EXCEPT !.b = r.ret]]
             /\ won' = [won EXCEPT ![c][m] = IF r.ret THEN Append(@, s) ELSE @]
    /\ pc' = [pc EXCEPT ![t] = "ret"]
    /\ UNCHANGED <<classes, mtx, op, calls, trueRet, drvVars, libVars>>

ClassExistsStep(t) ==
    /\ pc[t] = "body" /\ op[t] = "classExists"
    /\ res' = [res EXCEPT ![t] = [NoRes EXCEPT !.b = classExists(classes, arg[t].cls)]]
    /\ pc' = [pc EXCEPT ![t] = "ret"]
    /\ UNCHANGED <<regVars, mtx, op, arg, calls, trueRet, won, drvVars, libVars>>

MethodExistsStep(t) ==
    /\ pc[t] = "body" /\ op[t] = "methodExists"
    /\ \E c \in RegNames, m \in MethodNames :
         /\ arg' = [arg EXCEPT ![t] = [NoArg EXCEPT !.cls = c, !.mth = m]]
         /\ res' = [res EXCEPT ![t] = [NoRes EXCEPT !.b = methodExists(methods, c, m)]]
    /\ pc' = [pc EXCEPT ![t] = "ret"]
    /\ UNCHANGED <<regVars, mtx, op, calls, trueRet, won, drvVars, libVars>>

GetSignatureStep(t) ==
    /\ pc[t] = "body" /\ op[t] = "getSignature"
    /\ \E c \in RegNames, m \in MethodNames :
         LET r == getSignature(methods, c, m)
         IN  /\ methods' = r.methods
             /\ arg' = [arg EXCEPT ![t] = [NoArg EXCEPT !.cls = c, !.mth = m]]
             /\ res' = [res EXCEPT ![t] = [NoRes EXCEPT !.sig = r.sig, !.thrown = r.thrown]]
    /\ pc' = [pc EXCEPT ![t] = "ret"]
    /\ UNCHANGED <<classes, mtx, op, calls, trueRet, won, drvVars, libVars>>

\* A thread is writing the class set: inside registerClass's body.
WritingClasses(u) == pc[u] = "body" /\ op[u] = "registerClass"

\* classes.size() read without the mutex: when it overlaps a write of the set
\* (a data race) the value read is any count the set can have.
GetClassCountStep(t) ==
    /\ pc[t] = "body" /\ op[t] = "getClassCount"
    /\ \E n \in 0 .. Cardinality(RegNames) :
         /\ (\E u \in Threads \ {t} : WritingClasses(u)) \/ n = getClassCount(classes)
         /\ res' = [res EXCEPT ![t] = [NoRes EXCEPT !.n = n]]
    /\ pc' = [pc EXCEPT ![t] = "ret"]
    /\ UNCHANGED <<regVars, mtx, op, arg, calls, trueRet, won, drvVars, libVars>>

DumpToJSONStep(t) ==
    /\ pc[t] = "body" /\ op[t] = "dumpToJSON"
    /\ res' = [res EXCEPT ![t] = [NoRes EXCEPT !.n = dumpToJSON(methods)]]
    /\ pc' = [pc EXCEPT ![t] = "ret"]
    /\ UNCHANGED <<regVars, mtx, op, arg, calls, trueRet, won, drvVars, libVars>>

\* The function returns (or the exception leaves it): the scoped_lock, if any, is released.
RegReturn(t) ==
    /\ pc[t] = "ret"
    /\ mtx' = IF mtx = t THEN NoThread ELSE mtx
    /\ pc' = [pc EXCEPT ![t] = "idle"]
    /\ op' = [op EXCEPT ![t] = "none"]
    /\ arg' = [arg EXCEPT ![t] = NoArg]
    /\ res' = [res EXCEPT ![t] = NoRes]
    /\ UNCHANGED <<regVars, calls, trueRet, won, drvVars, libVars>>

\* The driver's variables while only the registry API is exercised.
DrvIdle ==
    /\ userFiles = <<>>
    /\ dpc = "off"
    /\ di = 0
    /\ parseTasks = <<>>
    /\ units = <<>>
    /\ analysisTasks = <<>>
    /\ compileTasks = <<>>
    /\ outputs = [f \in {} |-> "none"]
    /\ parseErrs = FALSE
    /\ mainCheck = "none"
    /\ exitCode = -1
    /\ regAtBarrier = <<>>
    /\ argv = <<>>
    /\ report = "none"

\* The tokenizer and the parser while they are not exercised.
NoNode == [k |-> "null"]
ParIdle ==
    /\ toks = <<>>
    /\ tpos = 1
    /\ perrs = <<>>
    /\ ppc = "off"
    /\ past = NoNode

\* TypeRegistry() = default: the pool is empty.
TypInit ==
    /\ pool = <<>>
    /\ typRet = <<>>

\* The kinds that have a counter.
SymbolKinds == {"STATIC", "FIELD", "ARG", "LCL"}

\* SymbolTable(): both scopes empty, every index 0.
SymInit ==
    /\ classScope = <<>>
    /\ subRoutineScope = <<>>
    /\ indices = [k \in SymbolKinds |-> 0]
    /\ symThrew = "none"
    /\ symOps = 0
    /\ symLog = [k \in SymbolKinds |-> <<>>]
    /\ symCall = [name |-> "", kind |-> "NONE"]
    /\ symCleared = {}

LibIdle == ParIdle /\ TypInit /\ SymInit

InitReg == RegInit /\ ApiInit /\ DrvIdle /\ LibIdle

NextReg ==
    \E t \in Threads :
        \/ RegCall(t)
        \/ RegLock(t)
        \/ RegisterClassStep(t)
        \/ RegisterMethodStep(t)
        \/ ClassExistsStep(t)
        \/ MethodExistsStep(t)
        \/ GetSignatureStep(t)
        \/ GetClassCountStep(t)
        \/ DumpToJSONStep(t)
        \/ RegReturn(t)

SpecReg == InitReg /\ [][NextReg]_vars

(***************************************************************************)
(* The build driver, main() of main.cpp.                                   *)
(***************************************************************************)
\* Absolute paths of the .jack files that can be named on the command line: they
\* exist and carry the extension .jack.
FilePaths == {"/p/Main.jack", "/p/A.jack", "/p/main.jack"}

\* The options main() recognises.
Flags == {"--viz-ast", "--viz-checker"}

\* Paths main() refuses: one that does not exist, one whose extension is not .jack.
MissingPath == "/q/Main.jack"
OtherPath == "/p/Main.txt"

\* What a command-line argument can be: a file, an option (one of the two, which
\* the argument loop treats alike), or a path that main() refuses.
Args == FilePaths \cup {"--viz-ast"} \cup {MissingPath, OtherPath}

\* fs::exists(inputPathArg)
Exists(path) == path # MissingPath

\* inputPathArg.extension()
Extension(path) == IF path = OtherPath THEN ".txt" ELSE ".jack"

\* fs::path(file).filename()
Filename(path) ==
    CASE path = "/p/Main.jack" -> "Main.jack"
      [] path = "/p/A.jack" -> "A.jack"
      [] path = "/p/main.jack" -> "main.jack"
      [] path = MissingPath -> "Main.jack"
      [] path = OtherPath -> "Main.txt"

\* fs::path(unit.filePath).replace_extension(".vm")
OutputPath(path) ==
    CASE path = "/p/Main.jack" -> "/p/Main.vm"
      [] path = "/p/A.jack" -> "/p/A.vm"
      [] path = "/p/main.jack" -> "/p/main.vm"

VmPaths == {OutputPath(f) : f \in FilePaths}

\* The command lines: any list of at most MaxFiles arguments.
ArgLists == UNION {[1 .. n -> Args] : n \in 0 .. MaxFiles}

\* The argument loop of main(), from argument i on: the first argument that is
\* not an option and does not exist, or is not a .jack file, ends main(); files
\* holds userFiles so far.
RECURSIVE ScanArgs(_, _, _)
ScanArgs(args, i, files) ==
    IF i > Len(args) THEN [error |-> "none", files |-> files]
    ELSE IF args[i] \in Flags THEN ScanArgs(args, i + 1, files)
    ELSE IF ~Exists(args[i]) THEN [error |-> "Path does not exist", files |-> files]
    ELSE IF Extension(args[i]) # ".jack"
         THEN [error |-> "Invalid file type", files |-> files]
    ELSE ScanArgs(args, i + 1, Append(files, args[i]))

\* A parse task and its future.  st: "none" (not dispatched), "running",
\* "inClass" (class name registered), "inSub" (a subroutine registered),
\* "done" (the CompilationUnit is in the future), "threw" (an exception is).
NoTask == [st |-> "none", cls |-> "-", ast |-> FALSE]

\* What parser.parse() hands back: an AST and no error, errors and the AST built
\* anyway, errors and no AST; or an exception leaves parseJob (a fatal lexer error).
ParseOutcomes == {"ok", "errorsWithAst", "errorsNoAst", "throw"}

\* The subroutine declarations a source file of class c can hold: in class Main
\* a subroutine main of any kind and return type; in every class a constructor new.
Declarations(c) ==
    {[mth |-> "new", sig |-> [subKind |-> "CONSTRUCTOR", returnType |-> "int"]]}
    \cup (IF c = "Main" THEN [mth : {"main"}, sig : Signatures] ELSE {})

\* A join that does not wait for the task (a poll instead of get()).
FutureReady_nowait(st) == TRUE

\* A future that get() would not block on.
FutureReady(st) == st \in {"done", "threw"}

\* A get() that swallows the task's exception.
FutureThrew_swallow(st) == FALSE

\* get() rethrows the exception the task ended with.
FutureThrew(st) == st = "threw"

\* validateMainEntry: fetch Main.main; it must be static and return void.
validateMainEntry(mth) ==
    LET r == getSignature(mth, "Main", "main")
    IN  [failed |-> r.thrown \/ ~isStatic(r.sig) \/ r.sig.returnType # "void",
         methods |-> r.methods]

DrvInit ==
    /\ argv \in ArgLists
    /\ report = "none"
    /\ userFiles = <<>>
    /\ dpc = "start"
    /\ di = 0
    /\ parseTasks = <<>>
    /\ units = <<>>
    /\ analysisTasks = <<>>
    /\ compileTasks = <<>>
    /\ outputs = [f \in VmPaths |-> "absent"]
    /\ parseErrs = FALSE
    /\ mainCheck = "none"
    /\ exitCode = -1
    /\ regAtBarrier = <<>>

Init == RegInit /\ ApiInit /\ DrvInit /\ LibIdle

\* hasMain, computed without comparing the case of the letters.
hasMain_nocase(files) ==
    \E i \in DOMAIN files : Filename(files[i]) \in {"Main.jack", "main.jack"}

\* The loop over userFiles looking for a file named Main.jack.
hasMain(files) == \E i \in DOMAIN files : Filename(files[i]) = "Main.jack"

\* main(), lines 222-280: the usage check, the argument loop, the check for an
\* empty file list and the check for Main.jack; each failure returns 1.
DrvStart ==
    /\ dpc = "start"
    /\ LET scan == ScanArgs(argv, 1, <<>>)
           msg == IF argv = <<>> THEN "Usage"
                  ELSE IF scan.error # "none" THEN scan.error
                  ELSE IF scan.files = <<>> THEN "No files provided."
                  ELSE IF ~hasMain(scan.files) THEN "Missing 'Main.jack'"
                  ELSE "none"
       IN  /\ report' = msg
           /\ userFiles' = scan.files
           /\ IF msg # "none"
              THEN /\ dpc' = "exit" /\ exitCode' = 1 /\ di' = di
                   /\ parseTasks' = parseTasks
              ELSE /\ dpc' = "dispatchParse" /\ exitCode' = exitCode /\ di' = 1
                   /\ parseTasks' = [i \in DOMAIN scan.files |-> NoTask]
    /\ UNCHANGED <<regVars, apiVars, libVars, units, analysisTasks, compileTasks, outputs,
                   parseErrs, mainCheck, regAtBarrier, argv>>

\* main(), lines 289-291: std::async(std::launch::async, parseJob, f, &registry).
DispatchParse ==
    /\ dpc = "dispatchParse"
    /\ \/ /\ di <= Len(userFiles)
          /\ parseTasks' = [parseTasks EXCEPT ![di].st = "running"]
          /\ di' = di + 1
          /\ dpc' = dpc
       \/ /\ di > Len(userFiles)
          /\ dpc' = "joinParse"
          /\ di' = 1
          /\ parseTasks' = parseTasks
    /\ UNCHANGED <<regVars, apiVars, libVars, userFiles, units, analysisTasks, compileTasks,
                   outputs, parseErrs, mainCheck, exitCode, regAtBarrier, argv, report>>

\* parseJob: the parser registers the class it recognizes.
ParseRegisterClass(i) ==
    /\ parseTasks[i].st = "running"
    /\ \E c \in RegNames :
         /\ classes' = registerClass(classes, c).classes
         /\ parseTasks' = [parseTasks EXCEPT ![i].st = "inClass", ![i].cls = c]
    /\ UNCHANGED <<methods, apiVars, libVars, userFiles, dpc, di, units, analysisTasks,
                   compileTasks, outputs, parseErrs, mainCheck, exitCode, regAtBarrier, argv, report>>

\* parseJob: the parser registers a subroutine of the class it is in.
ParseRegisterMethod(i) ==
    /\ parseTasks[i].st = "inClass"
    /\ \E d \in Declarations(parseTasks[i].cls) :
         methods' = registerMethod(methods, parseTasks[i].cls, d.mth, d.sig).methods
    /\ parseTasks' = [parseTasks EXCEPT ![i].st = "inSub"]
    /\ UNCHANGED <<classes, apiVars, libVars, userFiles, dpc, di, units, analysisTasks,
                   compileTasks, outputs, parseErrs, mainCheck, exitCode, regAtBarrier, argv, report>>

\* parseJob returns its CompilationUnit, or ends with an exception.  A parse
\* without errors has seen a class.
ParseFinish(i) ==
    /\ parseTasks[i].st \in {"running", "inClass", "inSub"}
    /\ \E o \in ParseOutcomes :
         /\ o = "ok" => parseTasks[i].st # "running"
         /\ parseTasks' = [parseTasks EXCEPT
                ![i] = [st |-> IF o = "throw" THEN "threw" ELSE "done",
                        cls |-> "-",
                        ast |-> o \in {"ok", "errorsWithAst"}]]
         /\ parseErrs' = (parseErrs \/ o \in {"errorsWithAst", "errorsNoAst"})
    /\ UNCHANGED <<regVars, apiVars, libVars, userFiles, dpc, di, units, analysisTasks,
                   compileTasks, outputs, mainCheck, exitCode, regAtBarrier, argv, report>>

\* main(), lines 294-297: t.get(); a unit with an AST is kept.
JoinParse ==
    /\ dpc = "joinParse"
    /\ \/ /\ di <= Len(userFiles)
          /\ FutureReady(parseTasks[di].st)
          /\ IF FutureThrew(parseTasks[di].st)
             THEN dpc' = "unwind" /\ UNCHANGED <<di, units>>
             ELSE /\ units' = IF parseTasks[di].ast
                              THEN Append(units, userFiles[di])
                              ELSE units
                  /\ di' = di + 1
                  /\ dpc' = dpc
          /\ UNCHANGED <<analysisTasks, compileTasks, regAtBarrier, argv, report>>
       \/ /\ di > Len(userFiles)
          /\ dpc' = "validate"
          /\ regAtBarrier' = <<[classes |-> classes, methods |-> methods]>>
          /\ analysisTasks' = [i \in DOMAIN units |-> "none"]
          /\ compileTasks' = [i \in DOMAIN units |-> "none"]
          /\ UNCHANGED <<di, units>>
    /\ UNCHANGED <<regVars, apiVars, libVars, userFiles, parseTasks, outputs, parseErrs,
                   mainCheck, exitCode, argv, report>>

\* main(), line 300: validateMainEntry(registry); it throws when the check fails.
Validate ==
    /\ dpc = "validate"
    /\ LET r == validateMainEntry(methods)
       IN  /\ methods' = r.methods
           /\ mainCheck' = IF r.failed THEN "failed" ELSE "ok"
           /\ dpc' = IF r.failed THEN "unwind" ELSE "dispatchAnalyze"
    /\ di' = 1
    /\ UNCHANGED <<classes, apiVars, libVars, userFiles, parseTasks, units, analysisTasks,
                   compileTasks, outputs, parseErrs, exitCode, regAtBarrier, argv, report>>

\* main(), lines 308-310: std::async(std::launch::async, analyzeJob, unit, &registry).
DispatchAnalyze ==
    /\ dpc = "dispatchAnalyze"
    /\ \/ /\ di <= Len(units)
          /\ analysisTasks' = [analysisTasks EXCEPT ![di] = "running"]
          /\ di' = di + 1
          /\ dpc' = dpc
       \/ /\ di > Len(units)
          /\ dpc' = "joinAnalyze"
          /\ di' = 1
          /\ analysisTasks' = analysisTasks
    /\ UNCHANGED <<regVars, apiVars, libVars, userFiles, parseTasks, units, compileTasks,
                   outputs, parseErrs, mainCheck, exitCode, regAtBarrier, argv, report>>

\* analyzeJob: the analyser reads the registry through a const reference and
\* either verifies the class or raises the first error.
AnalyzeFinish(i) ==
    /\ analysisTasks[i] = "running"
    /\ \E c \in RegNames, m \in MethodNames :
         methods' = getSignature(methods, c, m).methods
    /\ \E ok \in BOOLEAN :
         analysisTasks' = [analysisTasks EXCEPT ![i] = IF ok THEN "done" ELSE "threw"]
    /\ UNCHANGED <<classes, apiVars, libVars, userFiles, dpc, di, parseTasks, units,
                   compileTasks, outputs, parseErrs, mainCheck, exitCode, regAtBarrier, argv, report>>

\* main(), lines 312-314: t.get() on every analyze task.
JoinAnalyze ==
    /\ dpc = "joinAnalyze"
    /\ \/ /\ di <= Len(units)
          /\ FutureReady(analysisTasks[di])
          /\ IF FutureThrew(analysisTasks[di])
             THEN dpc' = "unwind" /\ di' = di
             ELSE dpc' = dpc /\ di' = di + 1
       \/ /\ di > Len(units)
          /\ dpc' = "dispatchCompile"
          /\ di' = 1
    /\ UNCHANGED <<regVars, apiVars, libVars, userFiles, parseTasks, units, analysisTasks,
                   compileTasks, outputs, parseErrs, mainCheck, exitCode, regAtBarrier, argv, report>>

\* main(), lines 321-323: std::async(std::launch::async, compileJob, unit, &registry).
DispatchCompile ==
    /\ dpc = "dispatchCompile"
    /\ \/ /\ di <= Len(units)
          /\ compileTasks' = [compileTasks EXCEPT ![di] = "running"]
          /\ di' = di + 1
          /\ dpc' = dpc
       \/ /\ di > Len(units)
          /\ dpc' = "joinCompile"
          /\ di' = 1
          /\ compileTasks' = compileTasks
    /\ UNCHANGED <<regVars, apiVars, libVars, userFiles, parseTasks, units, analysisTasks,
                   outputs, parseErrs, mainCheck, exitCode, regAtBarrier, argv, report>>

\* compileJob, lines 70-76: std::ofstream out(outputPath) creates or truncates
\* the .vm file; when it cannot be opened the job throws.
CompileOpen(i) ==
    /\ compileTasks[i] = "running"
    /\ \E opened \in BOOLEAN :
         IF opened
         THEN /\ outputs' = [outputs EXCEPT ![OutputPath(units[i])] = "open"]
              /\ compileTasks' = [compileTasks EXCEPT ![i] = "open"]
         ELSE /\ outputs' = outputs
              /\ compileTasks' = [compileTasks EXCEPT ![i] = "threw"]
    /\ UNCHANGED <<regVars, apiVars, libVars, userFiles, dpc, di, parseTasks, units,
                   analysisTasks, parseErrs, mainCheck, exitCode, regAtBarrier, argv, report>>

\* compileJob, lines 78-81: the generator writes the class, or raises an error
\* and leaves what it had written.
CompileFinish(i) ==
    /\ compileTasks[i] = "open"
    /\ \E c \in RegNames, m \in MethodNames :
         methods' = getSignature(methods, c, m).methods
    /\ \E ok \in BOOLEAN :
         /\ compileTasks' = [compileTasks EXCEPT ![i] = IF ok THEN "done" ELSE "threw"]
         /\ outputs' = [outputs EXCEPT ![OutputPath(units[i])] =
                            IF ok THEN "written" ELSE "partial"]
    /\ UNCHANGED <<classes, apiVars, libVars, userFiles, dpc, di, parseTasks, units,
                   analysisTasks, parseErrs, mainCheck, exitCode, regAtBarrier, argv, report>>

\* main(), lines 325-359: t.get() on every generate task, the report, return 0.
JoinCompile ==
    /\ dpc = "joinCompile"
    /\ \/ /\ di <= Len(units)
          /\ FutureReady(compileTasks[di])
          /\ IF FutureThrew(compileTasks[di])
             THEN dpc' = "unwind" /\ di' = di
             ELSE dpc' = dpc /\ di' = di + 1
          /\ exitCode' = exitCode
          /\ report' = report
       \/ /\ di > Len(units)
          /\ dpc' = "exit"
          /\ exitCode' = 0
          /\ report' = "BUILD SUCCESSFUL"
          /\ di' = di
    /\ UNCHANGED <<regVars, apiVars, libVars, userFiles, parseTasks, units, analysisTasks,
                   compileTasks, outputs, parseErrs, mainCheck, regAtBarrier, argv>>

\* A task that was dispatched and has not ended.
TaskLive(st) == st \notin {"none", "done", "threw"}

\* An unwinding that removes the .vm files of the build before it returns 1.
Unwind_rollback ==
    /\ dpc = "unwind"
    /\ \A i \in DOMAIN parseTasks : ~TaskLive(parseTasks[i].st)
    /\ \A i \in DOMAIN analysisTasks : ~TaskLive(analysisTasks[i])
    /\ \A i \in DOMAIN compileTasks : ~TaskLive(compileTasks[i])
    /\ dpc' = "exit"
    /\ exitCode' = 1
    /\ report' = "COMPILATION FAILED"
    /\ outputs' = [f \in VmPaths |-> "absent"]
    /\ UNCHANGED <<regVars, apiVars, libVars, userFiles, di, parseTasks, units, analysisTasks,
                   compileTasks, parseErrs, mainCheck, regAtBarrier, argv>>

\* An unwinding whose futures do not wait for their tasks.
Unwind_nowait ==
    /\ dpc = "unwind"
    /\ dpc' = "exit"
    /\ exitCode' = 1
    /\ report' = "COMPILATION FAILED"
    /\ UNCHANGED <<regVars, apiVars, libVars, userFiles, di, parseTasks, units, analysisTasks,
                   compileTasks, outputs, parseErrs, mainCheck, regAtBarrier, argv>>

\* main(), lines 353-357: the exception unwinds the try block, where the
\* destructor of every std::async future waits for its task, then return 1.
Unwind ==
    /\ dpc = "unwind"
    /\ \A i \in DOMAIN parseTasks : ~TaskLive(parseTasks[i].st)
    /\ \A i \in DOMAIN analysisTasks : ~TaskLive(analysisTasks[i])
    /\ \A i \in DOMAIN compileTasks : ~TaskLive(compileTasks[i])
    /\ dpc' = "exit"
    /\ exitCode' = 1
    /\ report' = "COMPILATION FAILED"
    /\ UNCHANGED <<regVars, apiVars, libVars, userFiles, di, parseTasks, units, analysisTasks,
                   compileTasks, outputs, parseErrs, mainCheck, regAtBarrier, argv>>

ParseRegisterClassAny == \E i \in DOMAIN parseTasks : ParseRegisterClass(i)
ParseRegisterMethodAny == \E i \in DOMAIN parseTasks : ParseRegisterMethod(i)
ParseFinishAny == \E i \in DOMAIN parseTasks : ParseFinish(i)
AnalyzeFinishAny == \E i \in DOMAIN analysisTasks : AnalyzeFinish(i)
CompileOpenAny == \E i \in DOMAIN compileTasks : CompileOpen(i)
CompileFinishAny == \E i \in DOMAIN compileTasks : CompileFinish(i)

Next ==
    \/ DrvStart
    \/ DispatchParse
    \/ ParseRegisterClassAny
    \/ ParseRegisterMethodAny
    \/ ParseFinishAny
    \/ JoinParse
    \/ Validate
    \/ DispatchAnalyze
    \/ AnalyzeFinishAny
    \/ JoinAnalyze
    \/ DispatchCompile
    \/ CompileOpenAny
    \/ CompileFinishAny
    \/ JoinCompile
    \/ Unwind

Spec == Init /\ [][Next]_vars

(***************************************************************************)
(* Tokens, the Tokenizer's contract, and the PrattParser.                  *)
(***************************************************************************)
\* The keyword table (keywordToString).
Keywords ==
    {"class", "method", "function", "constructor", "int", "boolean", "char", "void",
     "var", "static", "field", "let", "do", "if", "else", "while", "return",
     "true", "false", "null", "this"}

\* The symbols and the integer constants that occur in the sources explored.
SymbolToks == {"{", "}", "(", ")", "[", "]", ".", ",", ";",
               "+", "-", "*", "/", "&", "|", "<", ">", "=", "~"}
IntToks == {"1", "2"}

\* The string constants that occur in the sources explored, as written in the
\* source text, and the text between their quotes.
StringToks == {"\"int\"", "\"s\""}
StringText(tok) == IF tok = "\"int\"" THEN "int" ELSE "s"

\* The token current() yields once the input is exhausted.
EofTok == "<eof>"

\* Token::getType()
TokType(tok) ==
    IF tok = EofTok THEN "END_OF_FILE"
    ELSE IF tok \in Keywords THEN "KEYWORD"
    ELSE IF tok \in SymbolToks THEN "SYMBOL"
    ELSE IF tok \in IntToks THEN "INT_CONST"
    ELSE IF tok \in StringToks THEN "STRING_CONST"
    ELSE "IDENTIFIER"

\* Token::getValue(): the text of a TextToken (for a string constant the text
\* between the quotes) and of a KeywordToken; empty for an IntToken and for Eof.
Value(tok) ==
    IF TokType(tok) \in {"END_OF_FILE", "INT_CONST"} THEN ""
    ELSE IF TokType(tok) = "STRING_CONST" THEN StringText(tok)
    ELSE tok

\* Tokenizer::current()
current(t, pos) == IF pos > Len(t) THEN EofTok ELSE t[pos]

\* Tokenizer::hasMoreTokens()
hasMoreTokens(t, pos) == pos <= Len(t)

\* A tokenizer whose advance() on Eof starts over at the first token.
TokenizerAdvance_restart(t, pos) == IF pos > Len(t) THEN 1 ELSE pos + 1

\* Tokenizer::advance(): the next token becomes current; on Eof it stays on Eof.
TokenizerAdvance(t, pos) == IF pos > Len(t) THEN pos ELSE pos + 1

\* ---- PrattParser.  A parser state p is [pos, errs]: the index of currentToken
\* and the error list.  A token's line and column are its index in the source.
ParserState(pos) == [pos |-> pos, errs |-> <<>>]

\* currentToken
cur(t, p) == current(t, p.pos)

\* PrattParser::advance()
advance(t, p) == [p EXCEPT !.pos = TokenizerAdvance(t, p.pos)]

\* PrattParser::check(type, value)
check(t, p, type, value) ==
    /\ TokType(cur(t, p)) = type
    /\ (value = "" \/ Value(cur(t, p)) = value)

\* PrattParser::match(type, value)
match(t, p, type, value) ==
    IF check(t, p, type, value) THEN [ok |-> TRUE, p |-> advance(t, p)]
    ELSE [ok |-> FALSE, p |-> p]

\* PrattParser::reportError(message): the error is recorded at currentToken.
reportError(t, p, message) ==
    [p EXCEPT !.errs = Append(@, [at |-> p.pos, msg |-> message])]

\* The keywords at which synchronize() stops.
HarborKeywords == {"class", "constructor", "function", "method", "var", "let",
                   "do", "if", "while", "return"}

\* The loop of synchronize().
RECURSIVE SyncLoop(_, _)
SyncLoop(t, p) ==
    IF TokType(cur(t, p)) = "END_OF_FILE" THEN p
    ELSE IF check(t, p, "SYMBOL", ";") THEN advance(t, p)
    ELSE IF TokType(cur(t, p)) = "KEYWORD" /\ Value(cur(t, p)) \in HarborKeywords THEN p
    ELSE SyncLoop(t, advance(t, p))

\* synchronize() without the advance that precedes its loop.
synchronize_noadvance(t, p) == SyncLoop(t, p)

\* PrattParser::synchronize()
synchronize(t, p) == SyncLoop(t, advance(t, p))

\* PrattParser::expect(type, value)
expect(t, p, type, value) ==
    IF check(t, p, type, value) THEN advance(t, p)
    ELSE synchronize(t, reportError(t, p, "Expected token"))

\* PrattParser::parseType(allowVoid) and the loop over its generic arguments.
RECURSIVE parseType(_, _, _), TypeArgs(_, _, _)

\* One turn of the do-while loop: r is what parseType() returned.
TypeArgs_next(t, r, args) ==
    IF check(t, r.p, "SYMBOL", ",")
    THEN TypeArgs(t, advance(t, r.p),
                  IF r.node # NoNode THEN Append(args, r.node) ELSE args)
    ELSE [p |-> r.p, args |-> IF r.node # NoNode THEN Append(args, r.node) ELSE args]

TypeArgs(t, p, args) == TypeArgs_next(t, parseType(t, p, FALSE), args)

\* expect(">") after the generic arguments a.
parseType_generic(t, val, a) ==
    [p |-> expect(t, a.p, "SYMBOL", ">"),
     node |-> [k |-> "type", base |-> val, args |-> a.args]]

parseType(t, p, allowVoid) ==
    LET val == Value(cur(t, p))
        isPrimitive == val \in {"int", "char", "boolean", "float"}
        isVoid == val = "void"
        isClass == TokType(cur(t, p)) = "IDENTIFIER"
        p1 == advance(t, p)
    IN  IF isPrimitive \/ isClass \/ (isVoid /\ allowVoid)
        THEN IF check(t, p1, "SYMBOL", "<")
             THEN parseType_generic(t, val, TypeArgs(t, advance(t, p1), <<>>))
             ELSE [p |-> p1, node |-> [k |-> "type", base |-> val, args |-> <<>>]]
        ELSE [p |-> reportError(t, p, IF isVoid
                                      THEN "Variable cannot be of type 'void'."
                                      ELSE "Expected a valid type."),
              node |-> NoNode]

\* PrattParser::parseParameterList()
RECURSIVE ParamLoop(_, _, _)

\* One turn of the do-while loop: ty is what parseType() returned.
ParamLoop_typed(t, ty, params) ==
    IF ty.node = NoNode THEN [p |-> ty.p, params |-> params]
    ELSE IF TokType(cur(t, ty.p)) # "IDENTIFIER"
    THEN [p |-> reportError(t, ty.p, "Expected parameter name after type."),
          params |-> params]
    ELSE LET p1 == advance(t, ty.p)
             ps == Append(params, [type |-> ty.node, name |-> Value(cur(t, ty.p))])
         IN  IF check(t, p1, "SYMBOL", ",")
             THEN ParamLoop(t, advance(t, p1), ps)
             ELSE [p |-> p1, params |-> ps]

ParamLoop(t, p, params) == ParamLoop_typed(t, parseType(t, p, FALSE), params)

parseParameterList(t, p) ==
    IF check(t, p, "SYMBOL", ")") THEN [p |-> p, params |-> <<>>]
    ELSE ParamLoop(t, p, <<>>)

\* enum class Precedence, by its enumerators' values.
Precedence ==
    [LOWEST |-> 0, EQUALS |-> 1, LESS_GREATER |-> 2, SUM |-> 3, PRODUCT |-> 4,
     PREFIX |-> 5, CALL |-> 6, INDEX |-> 7, ACCESS |-> 8]

\* A ParseRule: the names of its nud and led handlers ("none": nullptr).
Rule(nud, led, precedence) == [nud |-> nud, led |-> led, precedence |-> precedence]

\* initializeRules(): the rules keyed by token text.
textRules(val) ==
    CASE val = "(" -> Rule("parseGroupNud", "none", Precedence.LOWEST)
      [] val = "~" -> Rule("parseUnaryNud", "none", Precedence.PREFIX)
      [] val = "-" -> Rule("parseUnaryNud", "parseBinaryLed", Precedence.SUM)
      [] val \in {"+", "|"} -> Rule("none", "parseBinaryLed", Precedence.SUM)
      [] val \in {"*", "/", "&"} -> Rule("none", "parseBinaryLed", Precedence.PRODUCT)
      [] val = "=" -> Rule("none", "parseBinaryLed", Precedence.EQUALS)
      [] val \in {"<", ">"} -> Rule("none", "parseBinaryLed", Precedence.LESS_GREATER)
      [] val = "." -> Rule("none", "parseCallLed", Precedence.CALL)
      [] val = "[" -> Rule("none", "parseIndexLed", Precedence.INDEX)
      [] val \in {"this", "true", "false", "null"} ->
             Rule("parseKeywordNud", "none", Precedence.LOWEST)

\* The texts that have a rule.
TextRuleKeys == {"(", "~", "-", "+", "|", "*", "/", "&", "=", "<", ">", ".", "[",
                 "this", "true", "false", "null"}

\* PrattParser::getRule(token): by text for symbols and keywords, else by token
\* type, else the null rule.
getRule(tok) ==
    IF TokType(tok) \in {"SYMBOL", "KEYWORD"} /\ Value(tok) \in TextRuleKeys
    THEN textRules(Value(tok))
    ELSE IF TokType(tok) = "INT_CONST"
    THEN Rule("parseIntegerNud", "none", Precedence.LOWEST)
    ELSE IF TokType(tok) = "STRING_CONST"
    THEN Rule("parseStringNud", "none", Precedence.LOWEST)
    ELSE IF TokType(tok) = "IDENTIFIER"
    THEN Rule("parseIdentifierNud", "none", Precedence.LOWEST)
    ELSE Rule("none", "none", Precedence.LOWEST)

RECURSIVE parseExpression(_, _, _), LedLoop(_, _, _, _), Nud(_, _, _), Led(_, _, _, _),
          parseExpressionList(_, _), ExprListLoop(_, _, _)

\* A prefix handler that consumes its token and hands back no node, without
\* reporting an error.
parseIntegerNud_null(t, p) == [p |-> advance(t, p), node |-> NoNode]

\* PrattParser::parseIntegerNud(): the node holds the token's getInt().
parseIntegerNud(t, p) ==
    [p |-> advance(t, p), node |-> [k |-> "int", v |-> cur(t, p)]]

\* PrattParser::parseStringNud()
parseStringNud(t, p) ==
    [p |-> advance(t, p), node |-> [k |-> "string", v |-> Value(cur(t, p))]]

\* PrattParser::parseKeywordNud()
parseKeywordNud(t, p) ==
    [p |-> advance(t, p), node |-> [k |-> "keyword", v |-> Value(cur(t, p))]]

\* The explicit generics of an identifier, closed by '>'.
parseIdentifierNud_generics(t, a) ==
    [p |-> expect(t, a.p, "SYMBOL", ">"), args |-> a.args]

\* A call node: l is what parseExpressionList() returned.
CallNode(t, receiver, name, l) ==
    [p |-> expect(t, l.p, "SYMBOL", ")"),
     node |-> [k |-> "call", receiver |-> receiver, name |-> name, args |-> l.list]]

\* The part of parseIdentifierNud() after the name and its generics g.
parseIdentifierNud_rest(t, name, g) ==
    IF check(t, g.p, "SYMBOL", "(")
    THEN CallNode(t, NoNode, name, parseExpressionList(t, advance(t, g.p)))
    ELSE [p |-> g.p, node |-> [k |-> "identifier", name |-> name, generics |-> g.args]]

\* PrattParser::parseIdentifierNud()
parseIdentifierNud(t, p) ==
    parseIdentifierNud_rest(t, Value(cur(t, p)),
        IF Value(cur(t, p)) = "Array" /\ check(t, advance(t, p), "SYMBOL", "<")
        THEN parseIdentifierNud_generics(t, TypeArgs(t, advance(t, advance(t, p)), <<>>))
        ELSE [p |-> advance(t, p), args |-> <<>>])

UnaryNode(opc, operand) ==
    [p |-> operand.p, node |-> [k |-> "unary", op |-> opc, operand |-> operand.node]]

\* PrattParser::parseUnaryNud()
parseUnaryNud(t, p) ==
    UnaryNode(Value(cur(t, p)), parseExpression(t, advance(t, p), Precedence.PREFIX))

parseGroupNud_close(t, expr) ==
    IF expr.node = NoNode THEN expr
    ELSE [p |-> expect(t, expr.p, "SYMBOL", ")"), node |-> expr.node]

\* PrattParser::parseGroupNud()
parseGroupNud(t, p) ==
    parseGroupNud_close(t, parseExpression(t, advance(t, p), Precedence.LOWEST))

BinaryNode(opc, left, right) ==
    IF right.node = NoNode THEN [p |-> right.p, node |-> NoNode]
    ELSE [p |-> right.p,
          node |-> [k |-> "binary", op |-> opc, left |-> left, right |-> right.node]]

\* parseBinaryLed with every operator grouped to the right.
parseBinaryLed_rightAssoc(t, p, left) ==
    BinaryNode(Value(cur(t, p)), left,
               parseExpression(t, advance(t, p), getRule(cur(t, p)).precedence - 1))

\* PrattParser::parseBinaryLed(left)
parseBinaryLed(t, p, left) ==
    LET opc == Value(cur(t, p))
        precedence == getRule(cur(t, p)).precedence
        nextPrecedence == IF opc = "=" THEN precedence - 1 ELSE precedence
    IN  BinaryNode(opc, left, parseExpression(t, advance(t, p), nextPrecedence))

\* PrattParser::parseCallLed(left)
parseCallLed(t, p, left) ==
    CallNode(t, left, Value(cur(t, advance(t, p))),
             parseExpressionList(t, expect(t, expect(t, advance(t, p), "IDENTIFIER", ""),
                                           "SYMBOL", "(")))

\* The part of parseIndexLed() after the index expression.
parseIndexLed_close(t, left, index) ==
    IF index.node = NoNode THEN [p |-> index.p, node |-> NoNode]
    ELSE [p |-> expect(t, IF check(t, index.p, "SYMBOL", "]") THEN index.p
                          ELSE synchronize(t, reportError(t, index.p,
                                              "Expected operator or ']'")),
                       "SYMBOL", "]"),
          node |-> [k |-> "index", array |-> left, index |-> index.node]]

\* PrattParser::parseIndexLed(left)
parseIndexLed(t, p, left) ==
    parseIndexLed_close(t, left, parseExpression(t, advance(t, p), Precedence.LOWEST))

\* (this->*prefixRule)()
Nud(t, p, nud) ==
    CASE nud = "parseIntegerNud" -> parseIntegerNud(t, p)
      [] nud = "parseStringNud" -> parseStringNud(t, p)
      [] nud = "parseKeywordNud" -> parseKeywordNud(t, p)
      [] nud = "parseIdentifierNud" -> parseIdentifierNud(t, p)
      [] nud = "parseUnaryNud" -> parseUnaryNud(t, p)
      [] nud = "parseGroupNud" -> parseGroupNud(t, p)

\* (this->*infixRule)(std::move(left))
Led(t, p, led, left) ==
    CASE led = "parseBinaryLed" -> parseBinaryLed(t, p, left)
      [] led = "parseCallLed" -> parseCallLed(t, p, left)
      [] led = "parseIndexLed" -> parseIndexLed(t, p, left)

\* left = (this->*infixRule)(std::move(left)), and the loop again.
LedLoop_again(t, r, precedence) == LedLoop(t, r.p, r.node, precedence)

\* The while loop of parseExpression().
LedLoop(t, p, left, precedence) ==
    IF precedence < getRule(cur(t, p)).precedence
    THEN IF getRule(cur(t, p)).led = "none" THEN [p |-> p, node |-> left]
         ELSE LedLoop_again(t, Led(t, p, getRule(cur(t, p)).led, left), precedence)
    ELSE [p |-> p, node |-> left]

\* PrattParser::parseExpression(precedence)
parseExpression(t, p, precedence) ==
    IF getRule(cur(t, p)).nud = "none"
    THEN [p |-> synchronize(t, reportError(t, p, "Unexpected token starting an expression")),
          node |-> NoNode]
    ELSE LedLoop_again(t, Nud(t, p, getRule(cur(t, p)).nud), precedence)

\* One turn of the do-while loop: expr is what parseExpression() returned.
ExprListLoop_next(t, expr, list) ==
    IF expr.node = NoNode THEN [p |-> expr.p, list |-> list]
    ELSE IF ~check(t, expr.p, "SYMBOL", ",") /\ ~check(t, expr.p, "SYMBOL", ")")
    THEN [p |-> synchronize(t, reportError(t, expr.p, "Expected ',' or ')'")),
          list |-> Append(list, expr.node)]
    ELSE IF check(t, expr.p, "SYMBOL", ",")
    THEN ExprListLoop(t, advance(t, expr.p), Append(list, expr.node))
    ELSE [p |-> expr.p, list |-> Append(list, expr.node)]

\* The do-while loop of parseExpressionList().
ExprListLoop(t, p, list) ==
    ExprListLoop_next(t, parseExpression(t, p, Precedence.LOWEST), list)

\* PrattParser::parseExpressionList()
parseExpressionList(t, p) ==
    IF check(t, p, "SYMBOL", ")") THEN [p |-> p, list |-> <<>>]
    ELSE ExprListLoop(t, p, <<>>)

RECURSIVE parseStatements(_, _), StatementLoop(_, _, _), parseIfStatement(_, _),
          parseWhileStatement(_, _)

\* report-and-synchronize when the token after an expression is not the closer.
ExpectCloser(t, p, closers, message) ==
    IF TokType(cur(t, p)) = "SYMBOL" /\ Value(cur(t, p)) \in closers THEN p
    ELSE synchronize(t, reportError(t, p, message))

\* The index of a let target, closed by ']'.
parseLetStatement_index(t, e) ==
    [p |-> expect(t, e.p, "SYMBOL", "]"), node |-> e.node]

\* The end of parseLetStatement(): the closer test, then expect(";").
parseLetStatement_finish(t, at, varName, ix, valueExpr) ==
    [p |-> expect(t, ExpectCloser(t, valueExpr.p, {";", ",", "]"},
                                  "Expected an operator or ';'"),
                  "SYMBOL", ";"),
     node |-> [k |-> "let", at |-> at, name |-> varName, index |-> ix.node,
               value |-> valueExpr.node]]

\* expect("=") and the value expression, after the optional index ix.
parseLetStatement_assigned(t, at, varName, ix) ==
    parseLetStatement_finish(t, at, varName, ix,
        parseExpression(t, expect(t, ix.p, "SYMBOL", "="), Precedence.LOWEST))

\* The part of parseLetStatement() after expect(IDENTIFIER) left the parser at p2.
parseLetStatement_named(t, at, varName, p2) ==
    parseLetStatement_assigned(t, at, varName,
        IF check(t, p2, "SYMBOL", "[")
        THEN parseLetStatement_index(t, parseExpression(t, advance(t, p2),
                                                        Precedence.LOWEST))
        ELSE [p |-> p2, node |-> NoNode])

\* PrattParser::parseLetStatement()
parseLetStatement(t, p) ==
    parseLetStatement_named(t, p.pos, Value(cur(t, advance(t, p))),
                            expect(t, advance(t, p), "IDENTIFIER", ""))

Block_close(t, b) == [p |-> expect(t, b.p, "SYMBOL", "}"), list |-> b.list]

\* A block: '{' statements '}'.
Block(t, p) == Block_close(t, parseStatements(t, expect(t, p, "SYMBOL", "{")))

\* expect(")") after a condition, through the closer test.
CloseCondition(t, condition) ==
    expect(t, ExpectCloser(t, condition.p, {")"}, "Expected operator or ')'"),
           "SYMBOL", ")")

parseIfStatement_finish(at, condition, ifBranch, elseBranch) ==
    [p |-> elseBranch.p,
     node |-> [k |-> "if", at |-> at, condition |-> condition.node,
               ifBranch |-> ifBranch.list, elseBranch |-> elseBranch.list]]

\* The optional else branch.
parseIfStatement_else(t, at, condition, ifBranch) ==
    parseIfStatement_finish(at, condition, ifBranch,
        IF check(t, ifBranch.p, "KEYWORD", "else")
        THEN Block(t, advance(t, ifBranch.p))
        ELSE [p |-> ifBranch.p, list |-> <<>>])

\* The part of parseIfStatement() after the condition.
parseIfStatement_then(t, at, condition) ==
    IF condition.node = NoNode THEN [p |-> condition.p, node |-> NoNode]
    ELSE parseIfStatement_else(t, at, condition, Block(t, CloseCondition(t, condition)))

\* PrattParser::parseIfStatement()
parseIfStatement(t, p) ==
    parseIfStatement_then(t, p.pos,
        parseExpression(t, expect(t, advance(t, p), "SYMBOL", "("), Precedence.LOWEST))

parseWhileStatement_finish(at, condition, body) ==
    [p |-> body.p,
     node |-> [k |-> "while", at |-> at, condition |-> condition.node,
               body |-> body.list]]

\* The part of parseWhileStatement() after the condition.
parseWhileStatement_body(t, at, condition) ==
    IF condition.node = NoNode THEN [p |-> condition.p, node |-> NoNode]
    ELSE parseWhileStatement_finish(at, condition,
                                    Block(t, CloseCondition(t, condition)))

\* PrattParser::parseWhileStatement()
parseWhileStatement(t, p) ==
    parseWhileStatement_body(t, p.pos,
        parseExpression(t, expect(t, advance(t, p), "SYMBOL", "("), Precedence.LOWEST))

\* parseDoStatement() wrapping whatever expression it parsed.
parseDoStatement_anyExpr(t, at, expr) ==
    IF expr.node = NoNode THEN [p |-> expr.p, node |-> NoNode]
    ELSE [p |-> expect(t, ExpectCloser(t, expr.p, {";"},
                                       "Expected ';' after subroutine call"),
                       "SYMBOL", ";"),
          node |-> [k |-> "do", at |-> at, call |-> expr.node]]

\* The part of parseDoStatement() after the expression.
parseDoStatement_finish(t, at, expr) ==
    IF expr.node = NoNode THEN [p |-> expr.p, node |-> NoNode]
    ELSE IF expr.node.k # "call"
    THEN [p |-> reportError(t, expr.p,
                    "The 'do' keyword must be followed by a subroutine call."),
          node |-> NoNode]
    ELSE [p |-> expect(t, ExpectCloser(t, expr.p, {";"},
                                       "Expected ';' after subroutine call"),
                       "SYMBOL", ";"),
          node |-> [k |-> "do", at |-> at, call |-> expr.node]]

\* PrattParser::parseDoStatement()
parseDoStatement(t, p) ==
    parseDoStatement_finish(t, p.pos,
                            parseExpression(t, advance(t, p), Precedence.LOWEST))

\* The part of parseReturnStatement() after the expression.
parseReturnStatement_finish(t, at, expr) ==
    IF expr.node = NoNode
    THEN [p |-> reportError(t, expr.p, "Expected expression after 'return'"),
          node |-> NoNode]
    ELSE [p |-> expect(t, expr.p, "SYMBOL", ";"),
          node |-> [k |-> "return", at |-> at, value |-> expr.node]]

\* PrattParser::parseReturnStatement()
parseReturnStatement(t, p) ==
    IF check(t, advance(t, p), "SYMBOL", ";")
    THEN [p |-> advance(t, advance(t, p)),
          node |-> [k |-> "return", at |-> p.pos, value |-> NoNode]]
    ELSE parseReturnStatement_finish(t, p.pos,
             parseExpression(t, advance(t, p), Precedence.LOWEST))

\* statements.push_back(stmt) when stmt is not null, and the loop again.
StatementLoop_next(t, stmt, list) ==
    StatementLoop(t, stmt.p, IF stmt.node # NoNode THEN Append(list, stmt.node) ELSE list)

\* The while loop of parseStatements().
StatementLoop(t, p, list) ==
    LET val == Value(cur(t, p))
    IN  IF check(t, p, "SYMBOL", "}") \/ check(t, p, "END_OF_FILE", "")
        THEN [p |-> p, list |-> list]
        ELSE IF val \notin {"let", "if", "while", "do", "return"}
        THEN StatementLoop(t, synchronize(t, reportError(t, p,
                 "Expected a statement (let, if, while, do, return).")), list)
        ELSE StatementLoop_next(t,
                 CASE val = "let" -> parseLetStatement(t, p)
                   [] val = "if" -> parseIfStatement(t, p)
                   [] val = "while" -> parseWhileStatement(t, p)
                   [] val = "do" -> parseDoStatement(t, p)
                   [] val = "return" -> parseReturnStatement(t, p),
                 list)

\* The test for Eof that ends parseStatements().
parseStatements_done(t, l) ==
    IF check(t, l.p, "END_OF_FILE", "")
    THEN [p |-> reportError(t, l.p, "Missing '}' at end of subroutine."), list |-> l.list]
    ELSE l

\* PrattParser::parseStatements()
parseStatements(t, p) == parseStatements_done(t, StatementLoop(t, p, <<>>))

\* The do-while loop over the names of a declaration: [p, names, ok].
RECURSIVE NameLoop(_, _, _, _)
NameLoop(t, p, names, message) ==
    IF TokType(cur(t, p)) # "IDENTIFIER"
    THEN [p |-> reportError(t, p, message), names |-> names, ok |-> FALSE]
    ELSE LET p1 == advance(t, p)
             ns == Append(names, Value(cur(t, p)))
         IN  IF check(t, p1, "SYMBOL", ",") THEN NameLoop(t, advance(t, p1), ns, message)
             ELSE [p |-> p1, names |-> ns, ok |-> TRUE]

\* PrattParser::parseLocalVars()
RECURSIVE LocalVarLoop(_, _, _)

\* expect(";") and the VarDecNode, after the names n.
LocalVarLoop_named(t, at, ty, n, declarations) ==
    LocalVarLoop(t, expect(t, n.p, "SYMBOL", ";"),
                 Append(declarations, [k |-> "varDec", at |-> at, type |-> ty.node,
                                       names |-> n.names]))

\* The part of one 'var' declaration after its type ty.
LocalVarLoop_typed(t, at, ty, declarations) ==
    IF ty.node = NoNode THEN LocalVarLoop(t, synchronize(t, ty.p), declarations)
    ELSE LocalVarLoop_named(t, at, ty,
             NameLoop(t, ty.p, <<>>,
                      "Expected variable name after type in 'var' declaration."),
             declarations)

LocalVarLoop(t, p, declarations) ==
    IF ~check(t, p, "KEYWORD", "var") THEN [p |-> p, list |-> declarations]
    ELSE LocalVarLoop_typed(t, advance(t, p).pos, parseType(t, advance(t, p), FALSE),
                            declarations)

parseLocalVars(t, p) == LocalVarLoop(t, p, <<>>)

\* expect(";") and the ClassVarDecNode, after the names n.
parseClassVarDec_named(t, at, kind, ty, n) ==
    IF ~n.ok THEN [p |-> synchronize(t, n.p), node |-> NoNode]
    ELSE [p |-> expect(t, n.p, "SYMBOL", ";"),
          node |-> [k |-> "classVarDec", at |-> at, kind |-> kind, type |-> ty.node,
                    names |-> n.names]]

\* The part of parseClassVarDec() after the type ty.
parseClassVarDec_typed(t, at, kind, ty) ==
    IF ty.node = NoNode THEN [p |-> synchronize(t, ty.p), node |-> NoNode]
    ELSE parseClassVarDec_named(t, at, kind, ty,
             NameLoop(t, ty.p, <<>>,
                      "Expected variable name in class variable declaration."))

\* PrattParser::parseClassVarDec()
parseClassVarDec(t, p) ==
    parseClassVarDec_typed(t, p.pos,
                           IF Value(cur(t, p)) = "static" THEN "STATIC" ELSE "FIELD",
                           parseType(t, advance(t, p), FALSE))

\* expect("}") and the SubroutineDecNode.
parseSubroutineDec_finish(t, at, subType, returnType, params, locals, body) ==
    [p |-> expect(t, body.p, "SYMBOL", "}"),
     node |-> [k |-> "subroutineDec", at |-> at, subType |-> subType,
               returnType |-> returnType.node, name |-> Value(cur(t, returnType.p)),
               params |-> params.params, locals |-> locals.list, body |-> body.list]]

\* parseStatements(), after the local variables.
parseSubroutineDec_statements(t, at, subType, returnType, params, locals) ==
    parseSubroutineDec_finish(t, at, subType, returnType, params, locals,
                              parseStatements(t, locals.p))

\* expect(")"), expect("{") and parseLocalVars(), after the parameters.
parseSubroutineDec_locals(t, at, subType, returnType, params) ==
    parseSubroutineDec_statements(t, at, subType, returnType, params,
        parseLocalVars(t, expect(t, expect(t, params.p, "SYMBOL", ")"), "SYMBOL", "{")))

\* The part of parseSubroutineDec() after the return type.
parseSubroutineDec_typed(t, at, subType, returnType) ==
    IF returnType.node = NoNode
    THEN [p |-> synchronize(t, returnType.p), node |-> NoNode]
    ELSE parseSubroutineDec_locals(t, at, subType, returnType,
             parseParameterList(t, expect(t, expect(t, returnType.p, "IDENTIFIER", ""),
                                          "SYMBOL", "(")))

\* PrattParser::parseSubroutineDec()
parseSubroutineDec(t, p) ==
    LET val == Value(cur(t, p))
        subType == IF val = "constructor" THEN "CONSTRUCTOR"
                   ELSE IF val = "function" THEN "FUNCTION" ELSE "METHOD"
    IN  parseSubroutineDec_typed(t, p.pos, subType, parseType(t, advance(t, p), TRUE))

RECURSIVE ClassLoop(_, _, _, _, _)

\* vars.push_back(varDec) when varDec is not null, and the loop again.
ClassLoop_var(t, varDec, classVars, subs, hasConstructor) ==
    ClassLoop(t, varDec.p,
              IF varDec.node # NoNode THEN Append(classVars, varDec.node) ELSE classVars,
              subs, hasConstructor)

\* subs.push_back(subDec) when subDec is not null, and the loop again.
ClassLoop_sub(t, subDec, classVars, subs, hasConstructor) ==
    ClassLoop(t, subDec.p, classVars,
              IF subDec.node # NoNode THEN Append(subs, subDec.node) ELSE subs,
              hasConstructor)

\* The while loop of parseClass(), without the test that subroutines came first.
ClassLoop_anyOrder(t, p, classVars, subs, hasConstructor) ==
    LET val == Value(cur(t, p))
    IN  IF check(t, p, "SYMBOL", "}") \/ check(t, p, "END_OF_FILE", "")
        THEN [p |-> p, vars |-> classVars, subs |-> subs,
              hasConstructor |-> hasConstructor]
        ELSE IF val \in {"static", "field"}
        THEN ClassLoop_var(t, parseClassVarDec(t, p), classVars, subs, hasConstructor)
        ELSE IF val \in {"constructor", "function", "method"}
        THEN ClassLoop_sub(t, parseSubroutineDec(t, p), classVars, subs,
                           hasConstructor \/ val = "constructor")
        ELSE ClassLoop(t, synchronize(t, reportError(t, p,
                           "Only declarations allowed in class scope.")),
                       classVars, subs, hasConstructor)

\* The while loop of parseClass().
ClassLoop(t, p, classVars, subs, hasConstructor) ==
    LET val == Value(cur(t, p))
    IN  IF check(t, p, "SYMBOL", "}") \/ check(t, p, "END_OF_FILE", "")
        THEN [p |-> p, vars |-> classVars, subs |-> subs,
              hasConstructor |-> hasConstructor]
        ELSE IF val \in {"static", "field"}
        THEN IF subs # <<>>
             THEN ClassLoop(t, synchronize(t, reportError(t, p,
                                "Class variables must be declared before subroutines.")),
                            classVars, subs, hasConstructor)
             ELSE ClassLoop_var(t, parseClassVarDec(t, p), classVars, subs,
                                hasConstructor)
        ELSE IF val \in {"constructor", "function", "method"}
        THEN ClassLoop_sub(t, parseSubroutineDec(t, p), classVars, subs,
                           hasConstructor \/ val = "constructor")
        ELSE ClassLoop(t, synchronize(t, reportError(t, p,
                           "Only declarations allowed in class scope.")),
                       classVars, subs, hasConstructor)

\* The end of parseClass(): the constructor rule, expect("}"), the ClassNode.
parseClass_finish(t, at, className, body) ==
    [p |-> expect(t, IF body.hasConstructor THEN body.p
                     ELSE reportError(t, body.p,
                              "Class must have at least one constructor."),
                  "SYMBOL", "}"),
     node |-> [k |-> "class", at |-> at, name |-> className, vars |-> body.vars,
               subs |-> body.subs]]

\* The part of parseClass() after expect("class") left the parser at p1.
parseClass_named(t, at, p1) ==
    parseClass_finish(t, at, Value(cur(t, p1)),
        ClassLoop(t, expect(t, expect(t, p1, "IDENTIFIER", ""), "SYMBOL", "{"),
                  <<>>, <<>>, FALSE))

\* PrattParser::parseClass(): the ClassNode is built whatever the error list holds.
parseClass(t, p) == parseClass_named(t, p.pos, expect(t, p, "KEYWORD", "class"))

\* The test for Eof that ends parse().
parse_done(t, classNode) ==
    [p |-> IF check(t, classNode.p, "END_OF_FILE", "") THEN classNode.p
           ELSE reportError(t, classNode.p, "Unexpected tokens after class definition."),
     node |-> classNode.node]

\* PrattParser::parse()
parse(t, p) == parse_done(t, parseClass(t, p))

\* ---- The sources explored: class <name> { members } with up to MaxMembers
\* members, well formed or not, and a well-formed or malformed end.
MaxMembers == 3

MemberChunks ==
    {<<"field", "int", "x", ";">>,
     <<"static", "A", "y", ";">>,
     <<"constructor", "A", "new", "(", ")", "{", "return", "this", ";", "}">>,
     <<"function", "void", "f", "(", ")", "{", "return", ";", "}">>,
     <<"function", "1", ";">>,
     <<"x">>}

ClassEnds == {<<"}">>, <<>>, <<"}", "x">>}

RECURSIVE Flatten(_)
Flatten(ss) == IF ss = <<>> THEN <<>> ELSE Head(ss) \o Flatten(Tail(ss))

ClassSources ==
    {<<"class", "A", "{">> \o Flatten(ms) \o e :
        ms \in UNION {[1 .. n -> MemberChunks] : n \in 0 .. MaxMembers}, e \in ClassEnds}

\* The tokenizer is constructed on a source: it is positioned on the first token.
ParInit ==
    /\ toks \in ClassSources
    /\ tpos = 1
    /\ perrs = <<>>
    /\ ppc = "start"
    /\ past = NoNode

\* tokenizer.advance()
TokAdvance ==
    /\ ppc = "start"
    /\ tpos' = TokenizerAdvance(toks, tpos)
    /\ UNCHANGED <<regVars, apiVars, drvVars, typVars, symVars, toks, perrs, ppc, past>>

\* A call of synchronize() with currentToken at tpos.
Synchronize ==
    /\ ppc = "start"
    /\ tpos' = synchronize(toks, ParserState(tpos)).pos
    /\ ppc' = "synced"
    /\ UNCHANGED <<regVars, apiVars, drvVars, typVars, symVars, toks, perrs, past>>

\* PrattParser parser(tokenizer); parser.parse() on a fresh tokenizer.
Parse ==
    /\ ppc = "start"
    /\ tpos = 1
    /\ LET r == parse(toks, ParserState(tpos))
       IN  /\ tpos' = r.p.pos
           /\ perrs' = r.p.errs
           /\ past' = r.node
    /\ ppc' = "parsed"
    /\ UNCHANGED <<regVars, apiVars, drvVars, typVars, symVars, toks>>

InitParse == RegInit /\ ApiInit /\ DrvIdle /\ ParInit /\ TypInit /\ SymInit
NextParse == TokAdvance \/ Synchronize \/ Parse
SpecParse == InitParse /\ [][NextParse]_vars

(***************************************************************************)
(* The TypeRegistry: the pool of canonical Type instances.                 *)
(***************************************************************************)

MaxTypeCalls == 3

\* Type(base): no generic arguments, isConst = false.
Type(base) == [baseType |-> base, genericArgs |-> <<>>, isConst |-> FALSE]

\* Type::setConst(value), on a copy.
setConst(t, value) == [t EXCEPT !.isConst = value]

\* Type::addGenericArg(arg), on a copy.
addGenericArg(t, a) == [t EXCEPT !.genericArgs = Append(@, a)]

TypeBases == {"int", "char", "Array"}

\* The types handed to the registry: plain and const names, Array<x>,
\* const Array<x>, Array<x, int> and Array<Array<x>>.
PlainTypes == {Type(b) : b \in TypeBases}
OneArgTypes == {addGenericArg(Type("Array"), a) : a \in PlainTypes}
TypeInputs ==
    PlainTypes
    \cup {setConst(t, TRUE) : t \in PlainTypes \cup OneArgTypes}
    \cup OneArgTypes
    \cup {addGenericArg(t, Type("int")) : t \in OneArgTypes}
    \cup {addGenericArg(Type("Array"), a) : a \in OneArgTypes}

\* Type(const Type& other): the deep copy; it keeps the base and isConst
\* and copies every generic argument that is not null.
RECURSIVE TypeCopy(_)
TypeCopy(other) ==
    [baseType |-> other.baseType,
     genericArgs |-> [i \in DOMAIN other.genericArgs
                        |-> TypeCopy(other.genericArgs[i])],
     isConst |-> other.isConst]

\* Type::operator== comparing the base names only.
Type_equals_baseOnly(a, b) == a.baseType = b.baseType

\* Type::operator==: the base names, the argument counts, then every
\* argument pairwise; isConst takes no part.
RECURSIVE Type_equals(_, _)
Type_equals(a, b) ==
    /\ a.baseType = b.baseType
    /\ Len(a.genericArgs) = Len(b.genericArgs)
    /\ \A i \in DOMAIN a.genericArgs :
          Type_equals(a.genericArgs[i], b.genericArgs[i])

\* TypeEq::operator()
TypeEq(a, b) == Type_equals(a, b)

\* size_t, narrowed to eight bits.
HashModulus == 256

\* 0x9e3779b9 in that width.
GoldenRatio == 185

\* std::hash<std::string_view>: implementation-defined; "int" and "char"
\* collide here.
StringHash(b) ==
    CASE b = "int" -> 77
      [] b = "char" -> 77
      [] b = "Array" -> 154
      [] OTHER -> 0

\* a ^ b
RECURSIVE Xor(_, _)
Xor(a, b) ==
    IF a = 0 /\ b = 0 THEN 0
    ELSE ((a + b) % 2) + 2 * Xor(a \div 2, b \div 2)

\* h ^= x + 0x9e3779b9 + (h << 6) + (h >> 2)
HashCombine(h, x) ==
    Xor(h, (x + GoldenRatio + h * 64 + (h \div 4)) % HashModulus)

RECURSIVE TypeHasher(_)
RECURSIVE HashArgs(_, _, _)
HashArgs(t, i, h) ==
    IF i > Len(t.genericArgs) THEN h
    ELSE HashArgs(t, i + 1, HashCombine(h, TypeHasher(t.genericArgs[i])))

\* TypeHasher::operator()(const Type&)
TypeHasher(t) == HashArgs(t, 1, StringHash(t.baseType))

\* pool.find(temp): the entries of temp's bucket that TypeEq accepts.
PoolFind(temp) ==
    {a \in DOMAIN pool :
        TypeHasher(pool[a]) = TypeHasher(temp) /\ TypeEq(pool[a], temp)}

\* TypeRegistry::getOrCreate: the pointer returned and the pool afterwards.
\* An address is the position at which the entry was inserted.
getOrCreate(targetType) ==
    LET temp == TypeCopy(targetType)
        it == PoolFind(temp)
    IN  IF it # {}
        THEN [ptr |-> CHOOSE a \in it : TRUE, pool |-> pool]
        ELSE [ptr |-> Len(pool) + 1, pool |-> Append(pool, temp)]

GetOrCreate ==
    /\ Len(typRet) < MaxTypeCalls
    /\ \E t \in TypeInputs :
          LET r == getOrCreate(t)
          IN  /\ pool' = r.pool
              /\ typRet' = Append(typRet, [type |-> t, ptr |-> r.ptr])
    /\ UNCHANGED <<regVars, apiVars, drvVars, parVars, symVars>>

\* TypeRegistry::getPrimitive
GetPrimitive ==
    /\ Len(typRet) < MaxTypeCalls
    /\ \E b \in TypeBases \ {"Array"} :
          LET r == getOrCreate(Type(b))
          IN  /\ pool' = r.pool
              /\ typRet' = Append(typRet, [type |-> Type(b), ptr |-> r.ptr])
    /\ UNCHANGED <<regVars, apiVars, drvVars, parVars, symVars>>

InitTypes == RegInit /\ ApiInit /\ DrvIdle /\ ParIdle /\ TypInit /\ SymInit

NextTypes == GetOrCreate \/ GetPrimitive

SpecTypes == InitTypes /\ [][NextTypes]_vars

(***************************************************************************)
(* The SymbolTable: class scope, subroutine scope and the index counters.  *)
(***************************************************************************)

MaxSymOps == 4

SymNames == {"x", "y", "z"}

SymTypes == {"int", "A"}

\* The scope a kind lives in: Static and Field in the class scope, Arg and
\* Local in the subroutine scope.
InClassScope(kind) == kind \in {"STATIC", "FIELD"}

\* SymbolTable::varCount
varCount(kind) == indices[kind]

\* SymbolTable::kindOf: the subroutine scope first, then the class scope.
kindOf(name) ==
    IF name \in DOMAIN subRoutineScope THEN subRoutineScope[name].kind
    ELSE IF name \in DOMAIN classScope THEN classScope[name].kind
    ELSE "NONE"

\* SymbolTable::indexOf
indexOf(name) ==
    IF name \in DOMAIN subRoutineScope THEN subRoutineScope[name].index
    ELSE IF name \in DOMAIN classScope THEN classScope[name].index
    ELSE -1

\* The table after a successful define of the given kind.
Defined(name, type, kind, next) ==
    LET sym == [type |-> type, kind |-> kind, index |-> indices[kind]]
    IN  [threw |-> FALSE,
         classScope |-> IF InClassScope(kind)
                        THEN MapPut(classScope, name, sym) ELSE classScope,
         subRoutineScope |-> IF InClassScope(kind) THEN subRoutineScope
                             ELSE MapPut(subRoutineScope, name, sym),
         indices |-> [indices EXCEPT ![kind] = next]]

Rejected ==
    [threw |-> TRUE, classScope |-> classScope,
     subRoutineScope |-> subRoutineScope, indices |-> indices]

\* A define that forgets to increment the counter of its kind.
define_noIncrement(name, type, kind) ==
    IF name \in DOMAIN subRoutineScope \cup DOMAIN classScope THEN Rejected
    ELSE Defined(name, type, kind, indices[kind])

\* A define that looks only in the scope of its own kind.
define_ownScope(name, type, kind) ==
    IF name \in (IF InClassScope(kind) THEN DOMAIN classScope
                 ELSE DOMAIN subRoutineScope)
    THEN Rejected
    ELSE Defined(name, type, kind, indices[kind] + 1)

\* SymbolTable::define: a name already visible in either scope is rejected
\* and nothing changes; otherwise the symbol gets the next index of its kind
\* and the counter moves on.
define(name, type, kind) ==
    IF name \in DOMAIN subRoutineScope \cup DOMAIN classScope THEN Rejected
    ELSE Defined(name, type, kind, indices[kind] + 1)

Define ==
    /\ symOps < MaxSymOps
    /\ \E name \in SymNames, type \in SymTypes, kind \in SymbolKinds :
          LET r == define(name, type, kind)
          IN  /\ classScope' = r.classScope
              /\ subRoutineScope' = r.subRoutineScope
              /\ indices' = r.indices
              /\ symThrew' = IF r.threw THEN "thrown" ELSE "ok"
              /\ symCall' = [name |-> name, kind |-> kind]
              /\ symLog' = IF r.threw THEN symLog
                           ELSE [symLog EXCEPT ![kind] =
                                    Append(@, indexOf(name)')]
    /\ symOps' = symOps + 1
    /\ UNCHANGED symCleared
    /\ UNCHANGED <<regVars, apiVars, drvVars, parVars, typVars>>

\* A startSubroutine that starts the whole table over, class scope included.
StartSubroutine_clearsAll ==
    /\ symOps < MaxSymOps
    /\ subRoutineScope' = <<>>
    /\ classScope' = <<>>
    /\ indices' = [k \in SymbolKinds |-> 0]
    /\ symLog' = [k \in SymbolKinds |-> <<>>]
    /\ symThrew' = "none"
    /\ symCall' = [name |-> "", kind |-> "NONE"]
    /\ symCleared' = DOMAIN subRoutineScope
    /\ symOps' = symOps + 1
    /\ UNCHANGED <<regVars, apiVars, drvVars, parVars, typVars>>

\* SymbolTable::startSubroutine: the subroutine scope is cleared and the Arg
\* and Local counters go back to 0.
StartSubroutine ==
    /\ symOps < MaxSymOps
    /\ subRoutineScope' = <<>>
    /\ indices' = [indices EXCEPT !["ARG"] = 0, !["LCL"] = 0]
    /\ symLog' = [symLog EXCEPT !["ARG"] = <<>>, !["LCL"] = <<>>]
    /\ symThrew' = "none"
    /\ symCall' = [name |-> "", kind |-> "NONE"]
    /\ symCleared' = DOMAIN subRoutineScope
    /\ symOps' = symOps + 1
    /\ UNCHANGED <<classScope>>
    /\ UNCHANGED <<regVars, apiVars, drvVars, parVars, typVars>>

InitSym == RegInit /\ ApiInit /\ DrvIdle /\ ParIdle /\ TypInit /\ SymInit

NextSym == Define \/ StartSubroutine

SpecSym == InitSym /\ [][NextSym]_vars

(***************************************************************************)
(* parseExpression on its own: expressions built from terms and binary     *)
(* operators.                                                              *)
(***************************************************************************)

MaxOps == 2

\* The operands: a name, a negated method call, a complemented subscript.
ExprTerms ==
    {<<"a">>, <<"-", "a", ".", "f", "(", ")">>, <<"~", "a", "[", "b", "]">>}

\* The binary operators of initializeRules().
BinaryOps == {"=", "<", ">", "+", "-", "|", "*", "/", "&"}

\* term (op term)*: the terms ts joined by the operators os.
RECURSIVE Interleave(_, _)
Interleave(ts, os) ==
    IF os = <<>> THEN Head(ts)
    ELSE Head(ts) \o <<Head(os)>> \o Interleave(Tail(ts), Tail(os))

\* An expression of at most MaxOps binary operators.
ExprInit ==
    /\ \E n \in 0 .. MaxOps :
          \E ts \in [1 .. n + 1 -> ExprTerms], os \in [1 .. n -> BinaryOps] :
              toks = Interleave(ts, os)
    /\ tpos = 1
    /\ perrs = <<>>
    /\ ppc = "start"
    /\ past = NoNode

\* parser.parseExpression(Precedence::LOWEST) on a fresh tokenizer.
ParseExpr ==
    /\ ppc = "start"
    /\ tpos = 1
    /\ LET r == parseExpression(toks, ParserState(tpos), Precedence.LOWEST)
       IN  /\ tpos' = r.p.pos
           /\ perrs' = r.p.errs
           /\ past' = r.node
    /\ ppc' = "expr"
    /\ UNCHANGED <<regVars, apiVars, drvVars, typVars, symVars, toks>>

InitExpr == RegInit /\ ApiInit /\ DrvIdle /\ ExprInit /\ TypInit /\ SymInit

NextExpr == ParseExpr

SpecExpr == InitExpr /\ [][NextExpr]_vars

(***************************************************************************)
(* parseDoStatement on its own: 'do' followed by what may or may not be a  *)
(* subroutine call.                                                        *)
(***************************************************************************)
\* Longest body of a 'do' statement, in pieces.
MaxDoChunks == 3

DoChunks ==
    {<<"a">>, <<"1">>, <<"f", "(", ")">>, <<".", "g", "(", ")">>, <<"[", "1", "]">>,
     <<"-">>, <<"+">>, <<"(">>, <<")">>}

DoEnds == {<<";">>, <<>>}

DoInit ==
    /\ \E n \in 1 .. MaxDoChunks : \E cs \in [1 .. n -> DoChunks] : \E e \in DoEnds :
           toks = <<"do">> \o Flatten(cs) \o e
    /\ tpos = 1
    /\ perrs = <<>>
    /\ ppc = "start"
    /\ past = NoNode

\* parseStatements() dispatching on 'do': parseDoStatement() with currentToken on it.
ParseDo ==
    /\ ppc = "start"
    /\ tpos = 1
    /\ LET r == parseDoStatement(toks, ParserState(tpos))
       IN  /\ tpos' = r.p.pos
           /\ perrs' = r.p.errs
           /\ past' = r.node
    /\ ppc' = "do"
    /\ UNCHANGED <<regVars, apiVars, drvVars, typVars, symVars, toks>>

InitDo == RegInit /\ ApiInit /\ DrvIdle /\ DoInit /\ TypInit /\ SymInit

NextDo == ParseDo

SpecDo == InitDo /\ [][NextDo]_vars

(***************************************************************************)
(* parseType on its own: the tokens where a type is expected.              *)
(***************************************************************************)
\* Longest run of arbitrary tokens at the place of a type.
MaxTypeToks == 4

TypeToks == {"int", "void", "let", "A", "1", "\"int\"", "<", ">", ","}

\* Types with a list of generic arguments and with nested generic arguments.
NestedTypes ==
    {<<"A", "<", "int", ",", "A", ">">>,
     <<"A", "<", "A", "<", "char", ">", ">">>,
     <<"boolean", "<", "A", ",", "A", ">">>}

TypeInit ==
    /\ \/ \E n \in 1 .. MaxTypeToks : toks \in [1 .. n -> TypeToks]
       \/ toks \in NestedTypes
    /\ tpos = 1
    /\ perrs = <<>>
    /\ ppc = "start"
    /\ past = NoNode

\* parseType(allowVoid) with currentToken on the first token: allowVoid is true
\* for the return type of a subroutine only.
ParseType ==
    /\ ppc = "start"
    /\ tpos = 1
    /\ \E allowVoid \in BOOLEAN :
           LET r == parseType(toks, ParserState(tpos), allowVoid)
           IN  /\ tpos' = r.p.pos
               /\ perrs' = r.p.errs
               /\ past' = r.node
               /\ ppc' = IF allowVoid THEN "returnType" ELSE "type"
    /\ UNCHANGED <<regVars, apiVars, drvVars, typVars, symVars, toks>>

InitType == RegInit /\ ApiInit /\ DrvIdle /\ TypeInit /\ TypInit /\ SymInit

NextType == ParseType

SpecType == InitType /\ [][NextType]_vars

(***************************************************************************)
(* parseLocalVars() and parseStatements() on the body of a subroutine,     *)
(* whole or damaged: one token left out, or the source cut off.            *)
(***************************************************************************)
\* Longest subroutine body, in chunks.
MaxStmts == 1

\* Statements alone and in sequence, local variable declarations, and two
\* class members, which are no statements.
StmtChunks ==
    {<<"let", "x", "[", "1", "]", "=", "a", ";">>,
     <<"let", "x", "=", "a", "+", "1", ";">>,
     <<"do", "a", ".", "f", "(", "1", ",", "a", ")", ";">>,
     <<"if", "(", "a", ")", "{", "}", "else", "{", "return", "a", ";", "}">>,
     <<"while", "(", "~", "a", ")", "{", "return", ";", "}">>,
     <<"var", "int", "y", ",", "z", ";">>,
     <<"var", "A", "y", ";", "let", "y", "=", "a", ";", "return", ";">>,
     <<"do", "f", "(", ")", ";", "x", "return", "a", ";">>,
     <<"field", "int", "x", ";">>,
     <<"function", "void", "f", "(", ")", "{", "}">>}

\* The source without its token at index d; the source itself for d = 0.
Without(src, d) ==
    IF d = 0 THEN src
    ELSE SubSeq(src, 1, d - 1) \o SubSeq(src, d + 1, Len(src))

\* The tokenizer is positioned on the first token after the '{' of a
\* subroutine; the body ends with its '}' unless the damage took it.
BodyInit ==
    /\ \E n \in 0 .. MaxStmts : \E cs \in [1 .. n -> StmtChunks] :
           LET src == Flatten(cs) \o <<"}">>
           IN  \/ \E d \in 0 .. Len(src) : toks = Without(src, d)
               \/ \E k \in 0 .. Len(src) - 1 : toks = SubSeq(src, 1, k)
    /\ tpos = 1
    /\ perrs = <<>>
    /\ ppc = "start"
    /\ past = NoNode

\* parseLocalVars() as parseSubroutineDec() calls it after the '{'.
ParseLocalVars ==
    /\ ppc = "start"
    /\ LET r == parseLocalVars(toks, ParserState(tpos))
       IN  /\ tpos' = r.p.pos
           /\ perrs' = r.p.errs
           /\ past' = r.list
    /\ ppc' = "locals"
    /\ UNCHANGED <<regVars, apiVars, drvVars, typVars, symVars, toks>>

\* parseStatements() as parseSubroutineDec() calls it after the local variables.
ParseStatements ==
    /\ ppc = "start"
    /\ LET r == parseStatements(toks, ParserState(tpos))
       IN  /\ tpos' = r.p.pos
           /\ perrs' = r.p.errs
           /\ past' = r.list
    /\ ppc' = "statements"
    /\ UNCHANGED <<regVars, apiVars, drvVars, typVars, symVars, toks>>

InitBody == RegInit /\ ApiInit /\ DrvIdle /\ BodyInit /\ TypInit /\ SymInit

NextBody == ParseLocalVars \/ ParseStatements

SpecBody == InitBody /\ [][NextBody]_vars

(***************************************************************************)
(* Claims about the GlobalRegistry, checked under SpecReg.                 *)
(***************************************************************************)
\* Thread t executes the body of operation o in this step.
BodyDone(t, o) == pc[t] = "body" /\ op[t] = o /\ pc'[t] = "ret"

\* Thread t has computed the result of operation o and has not yet returned.
AtReturn(t, o) == pc[t] = "ret" /\ op[t] = o

\* C5, per call: registerClass(name) returns true and adds name when name is not
\* yet in the class set, and returns false and leaves the set unchanged when it is.
C5_Step ==
    \A t \in Threads :
        BodyDone(t, "registerClass") =>
            LET c == arg'[t].cls
            IN  /\ c \notin classes => res'[t].b /\ classes' = classes \cup {c}
                /\ c \in classes => ~res'[t].b /\ classes' = classes

\* C5, over a run: for every name at most one registerClass call has returned
\* true, and exactly one has when the name is in the class set.
C5_Once ==
    \A c \in RegNames :
        /\ trueRet[c] <= 1
        /\ trueRet[c] = 1 <=> c \in classes

\* C5: registerClass returns true and adds the name when it is new, returns false
\* and changes nothing when it is registered, and under every interleaving of
\* calls with the same name exactly one returns true.
C5_RegisterClassOnce == [](C5_Once) /\ [][C5_Step]_vars

\* C5 witness: a registerClass call for an already registered name has returned false.
C5_Witness ==
    \E t \in Threads :
        /\ AtReturn(t, "registerClass")
        /\ ~res[t].b
        /\ trueRet[arg[t].cls] = 1

\* C6, per call: registerMethod(c, m, sig) returns false when m is already
\* registered for c, and then the stored signature is the one it was.
C6_Step ==
    \A t \in Threads :
        BodyDone(t, "registerMethod") =>
            LET c == arg'[t].cls
                m == arg'[t].mth
            IN  HasMethod(methods, c, m) =>
                    /\ ~res'[t].b
                    /\ HasMethod(methods', c, m)
                    /\ methods'[c][m] = methods[c][m]

\* C6, over a run: for every (c, m) at most one registerMethod call returned
\* true, the stored signature is the one that call passed, and a getSignature
\* that returns a value returns that signature.
C6_Stored ==
    /\ \A c \in RegNames, m \in MethodNames :
        /\ Len(won[c][m]) <= 1
        /\ HasMethod(methods, c, m) <=> Len(won[c][m]) = 1
        /\ HasMethod(methods, c, m) => methods[c][m] = won[c][m][1]
    /\ \A t \in Threads :
        AtReturn(t, "getSignature") /\ ~res[t].thrown =>
            /\ Len(won[arg[t].cls][arg[t].mth]) = 1
            /\ res[t].sig = won[arg[t].cls][arg[t].mth][1]

\* C6: a duplicate registerMethod returns false and leaves the stored signature
\* unchanged; getSignature(c, m) returns the signature passed to the one
\* registerMethod call for (c, m) that returned true.
C6_FirstSignatureKept == [](C6_Stored) /\ [][C6_Step]_vars

\* C6 witness: a registerMethod call passing a different signature for a method
\* that is already registered has returned false.
C6_Witness ==
    \E t \in Threads :
        /\ AtReturn(t, "registerMethod")
        /\ ~res[t].b
        /\ HasMethod(methods, arg[t].cls, arg[t].mth)
        /\ methods[arg[t].cls][arg[t].mth] # arg[t].sig

\* C7 (as claimed): classExists(name) returns true exactly when name has been
\* registered through registerClass or is one of int, char, boolean, void.
C7_ClassExistsExact ==
    \A t \in Threads :
        AtReturn(t, "classExists") =>
            (res[t].b <=> (arg[t].cls \in classes \/ arg[t].cls \in PrimitiveNames))

\* C8: getSignature(c, m) raises an error whenever no method m is registered for
\* class c (c without any entry, or c with other methods only), and the failed
\* call leaves the class set and the method map unchanged.
C8_GetSignatureFails ==
    [][\A t \in Threads :
        BodyDone(t, "getSignature") =>
            /\ ~HasMethod(methods, arg'[t].cls, arg'[t].mth) => res'[t].thrown
            /\ res'[t].thrown => classes' = classes /\ methods' = methods]_vars

\* C8 witness: getSignature has failed for a class that has methods, but not m.
C8_Witness ==
    \E t \in Threads :
        /\ AtReturn(t, "getSignature")
        /\ res[t].thrown
        /\ arg[t].cls \in DOMAIN methods
        /\ arg[t].mth \notin DOMAIN methods[arg[t].cls]

\* C9 (as claimed): a thread that is inside the body of a registry operation,
\* reading or writing the class set or the method map, holds the mutex.
C9_AccessUnderLock ==
    \A t \in Threads : pc[t] = "body" => mtx = t

\* The overlap C9 rules out: one thread reads the class set while another writes it.
C9_NoOverlap ==
    \A t, u \in Threads :
        t # u /\ pc[t] = "body" /\ op[t] = "getClassCount" => ~WritingClasses(u)

(***************************************************************************)
(* Claims about the build driver, checked under Spec.                      *)
(***************************************************************************)
\* C1: no analyze task has started unless every parse task has completed, and no
\* generate task has started unless every analyze task has completed, in every
\* interleaving of the worker threads.
C1_PhaseBarriers ==
    /\ (\E i \in DOMAIN analysisTasks : analysisTasks[i] # "none") =>
           \A j \in DOMAIN parseTasks : parseTasks[j].st = "done"
    /\ (\E i \in DOMAIN compileTasks : compileTasks[i] # "none") =>
           \A j \in DOMAIN analysisTasks : analysisTasks[j] = "done"

\* C1 witness: with two units, a generate task is running after both analyze
\* tasks and both parse tasks have completed.
C1_Witness ==
    /\ Len(units) >= 2
    /\ \E i \in DOMAIN compileTasks : compileTasks[i] \in {"running", "open"}
    /\ \A j \in DOMAIN analysisTasks : analysisTasks[j] = "done"

\* Main.main as the registry holds it is a Function returning void.
MainIsVoidFunction ==
    /\ HasMethod(methods, "Main", "main")
    /\ methods["Main"]["main"].subKind = "FUNCTION"
    /\ methods["Main"]["main"].returnType = "void"

\* C2 (as claimed): the Main-entry check fails the build if and only if Main.main
\* does not exist, is not of kind Function, or does not return void; and a build
\* that succeeds has a Main.main that is a Function returning void.
C2_MainEntryIff ==
    /\ mainCheck # "none" => (mainCheck = "failed" <=> ~MainIsVoidFunction)
    /\ exitCode = 0 => MainIsVoidFunction

\* C3 (as claimed): once the parse of some file has reported an error, no analyze
\* task is dispatched and the build does not end with success.
C3_ParseErrorsFailBuild ==
    parseErrs =>
        /\ \A i \in DOMAIN analysisTasks : analysisTasks[i] = "none"
        /\ exitCode # 0

\* C4: once an analyze task has raised an error no generate task is dispatched, no
\* output file is opened, and the build ends with failure; and once a generate
\* task has raised an error the build ends with failure.
C4_TaskErrorFailsBuild ==
    /\ (\E i \in DOMAIN analysisTasks : analysisTasks[i] = "threw") =>
           /\ \A j \in DOMAIN compileTasks : compileTasks[j] = "none"
           /\ \A f \in VmPaths : outputs[f] = "absent"
           /\ exitCode # 0
           /\ dpc = "exit" => exitCode = 1
    /\ (\E i \in DOMAIN compileTasks : compileTasks[i] = "threw") =>
           /\ exitCode # 0
           /\ dpc = "exit" => exitCode = 1

\* C4 witness: the build has ended with failure after one analyze task raised an
\* error and another completed.
C4_Witness ==
    /\ dpc = "exit"
    /\ exitCode = 1
    /\ \E i, j \in DOMAIN analysisTasks :
         analysisTasks[i] = "threw" /\ analysisTasks[j] = "done"

\* C10: from the parse barrier on (the start of the Main-entry check) to the end
\* of the build, the class set and the method map are the ones the barrier saw.
C10_RegistryFrozen ==
    Len(regAtBarrier) = 1 =>
        /\ classes = regAtBarrier[1].classes
        /\ methods = regAtBarrier[1].methods

\* C10 witness: a build has ended with success, its analyze and generate tasks
\* having run against a registry that holds a class.
C10_Witness ==
    /\ dpc = "exit"
    /\ exitCode = 0
    /\ Len(regAtBarrier) = 1
    /\ classes # {}
    /\ \E i \in DOMAIN compileTasks : compileTasks[i] = "done"

\* C11 (as claimed): when no argument that is not an option has the file name
\* Main.jack, main() ends with the report "Missing 'Main.jack'" and exit code 1.
C11_MissingMainReported ==
    (dpc = "exit" /\ ~\E i \in DOMAIN argv :
                        argv[i] \notin Flags /\ Filename(argv[i]) = "Main.jack")
        => (report = "Missing 'Main.jack'" /\ exitCode = 1)

\* C11 (amended): when no file of userFiles is named exactly Main.jack, main()
\* ends with exit code 1 and no parse, analyze or generate task was dispatched;
\* and when moreover every argument was accepted and at least one file was
\* named, the report is "Missing 'Main.jack'".
C11_NoMainNoTasks ==
    (dpc # "start" /\ ~\E i \in DOMAIN userFiles : Filename(userFiles[i]) = "Main.jack") =>
        /\ dpc = "exit"
        /\ exitCode = 1
        /\ parseTasks = <<>>
        /\ analysisTasks = <<>>
        /\ compileTasks = <<>>
        /\ \A f \in VmPaths : outputs[f] = "absent"
        /\ (argv # <<>> /\ ScanArgs(argv, 1, <<>>).error = "none" /\ userFiles # <<>>)
               => report = "Missing 'Main.jack'"

\* C11 witness: main() has ended on a command line naming main.jack and another
\* file, but not Main.jack.
C11_Witness ==
    /\ dpc = "exit"
    /\ Len(userFiles) >= 2
    /\ \E i \in DOMAIN userFiles : Filename(userFiles[i]) = "main.jack"
    /\ report = "Missing 'Main.jack'"

(***************************************************************************)
(* Claims about the Tokenizer and the PrattParser, checked under SpecParse *)
(* and SpecExpr.                                                           *)
(***************************************************************************)
\* C12 (as claimed): when parse() has recorded at least one error, the node it
\* hands back is null; a ClassNode comes back only with an empty error list.
C12_NoAstWithErrors ==
    (ppc = "parsed" /\ perrs # <<>>) => past = NoNode

\* C14: a freshly constructed lexer is on the first token of its source; once
\* the source is exhausted the current token is Eof, and after a further
\* advance() it is still Eof and hasMoreTokens() is still false.
C14_EofIsSticky ==
    ppc = "start" =>
        /\ (tpos = 1 /\ toks # <<>>) => current(toks, tpos) = toks[1]
        /\ ~hasMoreTokens(toks, tpos) =>
              /\ current(toks, tpos) = EofTok
              /\ current(toks, TokenizerAdvance(toks, tpos)) = EofTok
              /\ ~hasMoreTokens(toks, TokenizerAdvance(toks, tpos))

\* The lexer has been advanced over every token of its source.
C14_Witness ==
    /\ ppc = "start"
    /\ tpos = Len(toks) + 1
    /\ ~hasMoreTokens(toks, tpos)

(***************************************************************************)
(* Claims about the TypeRegistry, checked under SpecTypes.                 *)
(***************************************************************************)

\* A type without its const flags: base name and generic arguments.
RECURSIVE Structure(_)
Structure(t) ==
    <<t.baseType, [i \in DOMAIN t.genericArgs |-> Structure(t.genericArgs[i])]>>

\* C13: two getOrCreate calls return the same pointer exactly when their
\* arguments are structurally equal (same base name, pairwise equal generic
\* arguments); the pool never holds two structurally equal entries; and
\* every pointer handed out so far still denotes the type it was asked for.
C13_CanonicalTypes ==
    /\ \A i, j \in DOMAIN typRet :
          (typRet[i].ptr = typRet[j].ptr)
             <=> (Structure(typRet[i].type) = Structure(typRet[j].type))
    /\ \A a, b \in DOMAIN pool :
          a # b => Structure(pool[a]) # Structure(pool[b])
    /\ \A i \in DOMAIN typRet :
          /\ typRet[i].ptr \in DOMAIN pool
          /\ Structure(pool[typRet[i].ptr]) = Structure(typRet[i].type)

\* Three calls: Array<int>, Array<char> (same bucket structure, different
\* argument) and const Array<int>, the first and third sharing a pointer.
C13_Witness ==
    /\ Len(typRet) = 3
    /\ typRet[1].type = addGenericArg(Type("Array"), Type("int"))
    /\ typRet[2].type = addGenericArg(Type("Array"), Type("char"))
    /\ typRet[3].type = setConst(typRet[1].type, TRUE)
    /\ typRet[1].ptr = typRet[3].ptr
    /\ typRet[1].ptr # typRet[2].ptr

(***************************************************************************)
(* Claims about the SymbolTable, checked under SpecSym.                    *)
(***************************************************************************)

\* C15: for every kind, the indices handed out by the successful define
\* calls (since creation for Static and Field, since the latest
\* startSubroutine for Arg and Local) are 0, 1, 2, ... in definition order,
\* and varCount of the kind is the number of those definitions.
C15_DenseIndices ==
    \A k \in SymbolKinds :
        /\ symLog[k] = [i \in 1 .. Len(symLog[k]) |-> i - 1]
        /\ varCount(k) = Len(symLog[k])

\* Two fields and one local have been defined, the local last.
C15_Witness ==
    /\ Len(symLog["FIELD"]) = 2
    /\ Len(symLog["LCL"]) = 1
    /\ symOps = MaxSymOps
    /\ symThrew = "ok"
    /\ symCall.kind = "LCL"

C17_SynchronizeStops ==
    [][(ppc = "start" /\ ppc' = "synced") =>
          /\ tpos' >= TokenizerAdvance(toks, tpos)
          /\ \/ current(toks, tpos') = EofTok
             \/ current(toks, tpos') \in HarborKeywords
             \/ (tpos' > tpos + 1 /\ toks[tpos' - 1] = ";")
          /\ \A i \in (tpos + 1) .. (tpos' - 1) :
                /\ toks[i] \notin HarborKeywords
                /\ toks[i] = ";" => i = tpos' - 1]_vars

\* synchronize() returned behind a ';' with a token that is no harbor
\* keyword under the cursor.
C17_Witness ==
    /\ ppc = "synced"
    /\ tpos \in 3 .. Len(toks)
    /\ toks[tpos - 1] = ";"
    /\ toks[tpos] \notin HarborKeywords

\* ---- The reference parser of C18: one level per rung of the ladder
\* EQUALS < COMPARE < SUM < PRODUCT < PREFIX < CALL < INDEX.
RefLevelOps(l) ==
    CASE l = 1 -> {"="}
      [] l = 2 -> {"<", ">"}
      [] l = 3 -> {"+", "-", "|"}
      [] l = 4 -> {"*", "/", "&"}

RefAt(t, i) == IF i > Len(t) THEN EofTok ELSE t[i]

RefBin(o, l, r) == [k |-> "binary", op |-> o, left |-> l, right |-> r]

RefPrimary(tok) ==
    IF tok \in IntToks THEN [k |-> "int", v |-> tok]
    ELSE [k |-> "identifier", name |-> tok, generics |-> <<>>]

RECURSIVE RefBinary(_, _, _), RefFold(_, _, _, _), RefPrefix(_, _), RefPostfix(_, _, _)

\* A level of binary operators: EQUALS groups to the right, the others to
\* the left.
RefBinary(t, i, l) ==
    IF l > 4 THEN RefPrefix(t, i)
    ELSE LET first == RefBinary(t, i, l + 1)
         IN  IF l > 1 THEN RefFold(t, first.pos, l, first.node)
             ELSE IF RefAt(t, first.pos) \in RefLevelOps(1)
             THEN LET rest == RefBinary(t, first.pos + 1, 1)
                  IN  [pos |-> rest.pos,
                       node |-> RefBin(RefAt(t, first.pos), first.node, rest.node)]
             ELSE first

RefFold(t, i, l, left) ==
    IF RefAt(t, i) \in RefLevelOps(l)
    THEN LET r == RefBinary(t, i + 1, l + 1)
         IN  RefFold(t, r.pos, l, RefBin(RefAt(t, i), left, r.node))
    ELSE [pos |-> i, node |-> left]

\* PREFIX: a unary operator applies to everything the postfix rungs build.
RefPrefix(t, i) ==
    IF RefAt(t, i) \in {"-", "~"}
    THEN LET o == RefPrefix(t, i + 1)
         IN  [pos |-> o.pos,
              node |-> [k |-> "unary", op |-> RefAt(t, i), operand |-> o.node]]
    ELSE RefPostfix(t, i + 1, RefPrimary(RefAt(t, i)))

\* CALL and INDEX: '.' name '(' ')' and '[' expression ']', left to right.
RefPostfix(t, i, left) ==
    IF RefAt(t, i) = "."
    THEN RefPostfix(t, i + 4,
                    [k |-> "call", receiver |-> left, name |-> RefAt(t, i + 1),
                     args |-> <<>>])
    ELSE IF RefAt(t, i) = "["
    THEN LET inner == RefBinary(t, i + 1, 1)
         IN  RefPostfix(t, inner.pos + 1,
                        [k |-> "index", array |-> left, index |-> inner.node])
    ELSE [pos |-> i, node |-> left]

\* C18: parseExpression(LOWEST) on an error-free expression over the binary
\* operators = < > + - | * / &, the unary operators - and ~, '.' calls and
\* '[' subscripts reports nothing, consumes the whole expression and builds
\* the tree of the reference parser: the ladder EQUALS < COMPARE < SUM <
\* PRODUCT < PREFIX < CALL < INDEX, '=' grouping to the right and every
\* other binary operator to the left.
C18_PrattMatchesLadder ==
    ppc = "expr" =>
        /\ perrs = <<>>
        /\ tpos = Len(toks) + 1
        /\ past = RefBinary(toks, 1, 1).node

\* a - a * ~a[b] was parsed: the product under the difference, the
\* subscript under the complement.
C18_Witness ==
    /\ ppc = "expr"
    /\ toks = <<"a", "-", "a", "*", "~", "a", "[", "b", "]">>
    /\ past.k = "binary"
    /\ past.op = "-"
    /\ past.right.op = "*"
    /\ past.right.right.k = "unary"
    /\ past.right.right.operand.k = "index"

\* The error list holds the given message at token i.
ReportedAt(i, msg) == \E n \in DOMAIN perrs : perrs[n] = [at |-> i, msg |-> msg]

MisplacedVar == "Class variables must be declared before subroutines."

\* Token i starts a class variable declaration of the source.
ClassVarAt(i) == i \in DOMAIN toks /\ toks[i] \in {"static", "field"}

\* The class node holds a variable declaration that starts at token i.
InClassVars(i) == \E n \in DOMAIN past.vars : past.vars[n].at = i

\* C19 as stated: every static or field declaration that follows a
\* subroutine declaration in the class body is reported at that declaration
\* and is not added to the class variable list.
C19_MisplacedVarReported ==
    ppc = "parsed" =>
        \A i \in DOMAIN toks :
            (/\ ClassVarAt(i)
             /\ \E j \in 1 .. (i - 1) : toks[j] \in {"constructor", "function", "method"})
                => (ReportedAt(i, MisplacedVar) /\ ~InClassVars(i))

\* Token i lies in the tokens skipped by the recovery from an earlier error.
Swallowed(i) ==
    \E n \in DOMAIN perrs :
        perrs[n].at < i /\ i < synchronize(toks, ParserState(perrs[n].at)).pos

\* C19, amended: a static or field declaration that follows a subroutine
\* declaration which was parsed into a node is never added to the class
\* variable list; unless the recovery from an earlier error skipped it, the
\* error is reported at its first token, and the parser synchronizes from
\* there: nothing is reported inside the tokens that synchronize() skips.
C19_MisplacedVarAfterParsedSub ==
    ppc = "parsed" =>
        \A i \in DOMAIN toks :
            (/\ ClassVarAt(i)
             /\ \E n \in DOMAIN past.subs : past.subs[n].at < i)
                => /\ ~InClassVars(i)
                   /\ \/ Swallowed(i)
                      \/ /\ ReportedAt(i, MisplacedVar)
                         /\ \A n \in DOMAIN perrs :
                               ~(i < perrs[n].at
                                 /\ perrs[n].at < synchronize(toks, ParserState(i)).pos)

\* class A { function void f ( ) { return ; } field int x ; }: the field
\* declaration at token 13 is reported and dropped.
C19_Witness ==
    /\ ppc = "parsed"
    /\ toks = <<"class", "A", "{", "function", "void", "f", "(", ")", "{", "return",
               ";", "}", "field", "int", "x", ";", "}">>
    /\ ReportedAt(13, MisplacedVar)
    /\ past.vars = <<>>
    /\ Len(past.subs) = 1

MissingConstructor == "Class must have at least one constructor."

\* C20: the parse error reported for a class without a constructor carries
\* the location of the class, that of its 'class' keyword.
C20_ErrorAtClassLocation ==
    ppc = "parsed" =>
        \A n \in DOMAIN perrs :
            perrs[n].msg = MissingConstructor => perrs[n].at = past.at

(***************************************************************************)
(* Claims about the statement parsers, checked under SpecDo.               *)
(***************************************************************************)
\* What parseExpression(LOWEST) hands back for the body of the 'do' statement.
DoBody == parseExpression(toks, advance(toks, ParserState(1)), Precedence.LOWEST)

DoMessage == "The 'do' keyword must be followed by a subroutine call."

\* C21: a 'do' statement whose body expression is a node other than a Call is
\* reported with DoMessage and yields no DoStatementNode; the DoStatementNode
\* that parseDoStatement returns always wraps a Call.
C21_DoWrapsCall ==
    ppc = "do" =>
        /\ (DoBody.node # NoNode /\ DoBody.node.k # "call") =>
               /\ past = NoNode
               /\ \E n \in DOMAIN perrs : perrs[n].msg = DoMessage
        /\ past # NoNode => (past.k = "do" /\ past.call.k = "call")

\* 'do f() + 1 ;' has been parsed: a binary operation with a call as operand.
C21_Witness ==
    /\ ppc = "do"
    /\ DoBody.node.k = "binary"
    /\ DoBody.node.left.k = "call"
    /\ past = NoNode
    /\ \E n \in DOMAIN perrs : perrs[n].msg = DoMessage

(***************************************************************************)
(* Claims about parseType, checked under SpecType.                         *)
(***************************************************************************)
\* The grammar  type := 'int' | 'char' | 'boolean' | ident ('<' type (',' type)* '>')?
\* as a recogniser: the index after the type that starts at pos, 0 when none does.
RECURSIVE GrammarType(_, _), GrammarTypeList(_, _)

GrammarTypeList_next(t, q) ==
    IF q = 0 THEN 0
    ELSE IF current(t, q) = "," THEN GrammarTypeList(t, q + 1)
    ELSE q

GrammarTypeList(t, pos) == GrammarTypeList_next(t, GrammarType(t, pos))

GrammarType_close(t, q) == IF q # 0 /\ current(t, q) = ">" THEN q + 1 ELSE 0

GrammarType(t, pos) ==
    IF current(t, pos) \in {"int", "char", "boolean"} THEN pos + 1
    ELSE IF TokType(current(t, pos)) = "IDENTIFIER"
    THEN IF current(t, pos + 1) = "<"
         THEN GrammarType_close(t, GrammarTypeList(t, pos + 2))
         ELSE pos + 1
    ELSE 0

\* The same where a return type is expected: the keyword void is a type there.
GrammarReturnType(t, pos, allowVoid) ==
    IF allowVoid /\ current(t, pos) = "void" THEN pos + 1 ELSE GrammarType(t, pos)

\* The tokens a type can start with.
StartsType(tok, allowVoid) ==
    \/ tok \in {"int", "char", "boolean"}
    \/ TokType(tok) = "IDENTIFIER"
    \/ allowVoid /\ tok = "void"

\* C22: parseType hands back a type without reporting an error exactly when the
\* tokens at currentToken are a type of the grammar, which it consumes whole; on a
\* first token that cannot start a type it reports an error and hands back no type.
C22_ExactGrammar ==
    ppc \in {"type", "returnType"} =>
        /\ (past # NoNode /\ perrs = <<>>) <=>
               (/\ GrammarReturnType(toks, 1, ppc = "returnType") # 0
                /\ GrammarReturnType(toks, 1, ppc = "returnType") = tpos)
        /\ ~StartsType(current(toks, 1), ppc = "returnType") =>
               (past = NoNode /\ perrs # <<>>)

C24_IsStart == symOps' = symOps + 1 /\ symThrew' = "none"

C24_Step ==
    C24_IsStart =>
        /\ subRoutineScope' = <<>>
        /\ indices'["ARG"] = 0
        /\ indices'["LCL"] = 0
        /\ classScope' = classScope
        /\ indices'["STATIC"] = indices["STATIC"]
        /\ indices'["FIELD"] = indices["FIELD"]
        /\ \A name \in SymNames :
              /\ kindOf(name) \in {"ARG", "LCL"} => kindOf(name)' = "NONE"
              /\ kindOf(name) \in {"STATIC", "FIELD"} =>
                     /\ kindOf(name)' = kindOf(name)
                     /\ indexOf(name)' = indexOf(name)

OwnOutput(i) ==
    \A j \in DOMAIN units : j # i => OutputPath(units[j]) # OutputPath(units[i])

\* A step of main() itself, as opposed to a step of one of its tasks.
MainStep == dpc' # dpc \/ di' # di \/ exitCode' # exitCode

C26_Step ==
    /\ MainStep => outputs' = outputs
    /\ \A i \in DOMAIN compileTasks :
          (compileTasks[i] = "done" /\ OwnOutput(i))
              => outputs'[OutputPath(units[i])] = "written"

C26_State ==
    /\ \A i \in DOMAIN compileTasks :
          (compileTasks[i] = "done" /\ OwnOutput(i))
              => outputs[OutputPath(units[i])] = "written"
    /\ (dpc = "exit" /\ \E i \in DOMAIN compileTasks : compileTasks[i] = "threw")
          => (exitCode = 1 /\ report = "COMPILATION FAILED")

\* C26: no step of main() changes an output file; the file a successful generate
\* task wrote stays written through the failure of another task, the unwinding and
\* the return of main(); and a build in which a generate task failed returns 1.
C26_NoRollback == [](C26_State) /\ [][C26_Step]_vars

\* main() has returned 1 after one generate task failed and another one, for a
\* different file, succeeded: the file of the latter is still there.
C26_Witness ==
    /\ dpc = "exit"
    /\ exitCode = 1
    /\ \E i, j \in DOMAIN compileTasks :
          /\ compileTasks[i] = "done"
          /\ compileTasks[j] = "threw"
          /\ OwnOutput(i)
          /\ outputs[OutputPath(units[i])] = "written"


(***************************************************************************)
(* Claims about the loops of the parser, checked under SpecBody.           *)
(***************************************************************************)
\* The positions currentToken can take: every token and the Eof after them.
LoopPositions == 1 .. Len(toks) + 1

AtEof(pos) == TokType(current(toks, pos)) = "END_OF_FILE"

\* The loop of synchronize() is left at pos: Eof, ';' or a harbor keyword.
SyncLoopExits(pos) ==
    \/ AtEof(pos)
    \/ check(toks, ParserState(pos), "SYMBOL", ";")
    \/ /\ TokType(current(toks, pos)) = "KEYWORD"
       /\ Value(current(toks, pos)) \in HarborKeywords

\* The loops of parseClass() and of parseStatements() are left at pos.
BlockLoopExits(pos) ==
    \/ check(toks, ParserState(pos), "SYMBOL", "}")
    \/ check(toks, ParserState(pos), "END_OF_FILE", "")

\* currentToken after one turn of the loop of parseClass() entered at pos;
\* seen: a subroutine was declared before.
ClassTurn(pos, seen) ==
    LET p == ParserState(pos)
        val == Value(cur(toks, p))
    IN  IF val \in {"static", "field"} /\ seen
        THEN synchronize(toks, reportError(toks, p,
                 "Class variables must be declared before subroutines.")).pos
        ELSE IF val \in {"static", "field"} THEN parseClassVarDec(toks, p).p.pos
        ELSE IF val \in {"constructor", "function", "method"}
        THEN parseSubroutineDec(toks, p).p.pos
        ELSE synchronize(toks, reportError(toks, p,
                 "Only declarations allowed in class scope.")).pos

\* currentToken after one turn of the loop of parseStatements() entered at pos.
StatementTurn(pos) ==
    LET p == ParserState(pos)
        val == Value(cur(toks, p))
    IN  CASE val = "let" -> parseLetStatement(toks, p).p.pos
          [] val = "if" -> parseIfStatement(toks, p).p.pos
          [] val = "while" -> parseWhileStatement(toks, p).p.pos
          [] val = "do" -> parseDoStatement(toks, p).p.pos
          [] val = "return" -> parseReturnStatement(toks, p).p.pos
          [] OTHER -> synchronize(toks, reportError(toks, p,
                          "Expected a statement (let, if, while, do, return).")).pos

\* currentToken after the one 'var' declaration that starts at pos.
LocalVarTurn_typed(ty) ==
    IF ty.node = NoNode THEN synchronize(toks, ty.p).pos
    ELSE expect(toks, NameLoop(toks, ty.p, <<>>,
                    "Expected variable name after type in 'var' declaration.").p,
                "SYMBOL", ";").pos

LocalVarTurn(pos) == LocalVarTurn_typed(parseType(toks, advance(toks, ParserState(pos)), FALSE))

\* The loop of parseExpression(precedence) goes on at pos.
LedLoopGoesOn(pos, precedence) ==
    /\ precedence < getRule(current(toks, pos)).precedence
    /\ getRule(current(toks, pos)).led # "none"

\* currentToken after the infix handler of the token at pos has run on a left
\* operand.
LedTurn(pos) ==
    Led(toks, ParserState(pos), getRule(current(toks, pos)).led,
        [k |-> "identifier", name |-> "a", generics |-> <<>>]).p.pos

\* The do-while loop of parseExpressionList() goes on after the expression
\* expr: it was parsed and a ',' follows it.
ExprListGoesOn(expr) == expr.node # NoNode /\ check(toks, expr.p, "SYMBOL", ",")

\* One turn of that loop, entered at pos, consumes a token when the loop goes on.
ExprListTurnAdvances(pos, expr) ==
    ExprListGoesOn(expr) => advance(toks, expr.p).pos > pos

\* C27: PrattParser::parse() cannot stay on one token for ever: on a token
\* stream that ends in a sticky Eof, synchronize() consumes a token unless it
\* is called on Eof, and every turn of the loops of synchronize, parseClass,
\* parseStatements, parseLocalVars, parseExpression and parseExpressionList
\* entered at any token either leaves the loop or ends on a later token.
\* The parser never changes the tokens, so the turns that parse are examined
\* once for each token stream, in the state parseStatements() leaves.
C27_LoopsAdvance ==
    /\ \A pos \in LoopPositions :
           AtEof(pos) \/ synchronize(toks, ParserState(pos)).pos > pos
    /\ \A pos \in LoopPositions :
           SyncLoopExits(pos) \/ advance(toks, ParserState(pos)).pos > pos
    /\ ppc = "statements" =>
           /\ \A pos \in LoopPositions :
                  BlockLoopExits(pos) \/ StatementTurn(pos) > pos
           /\ \A pos \in LoopPositions : \A seen \in BOOLEAN :
                  BlockLoopExits(pos) \/ ClassTurn(pos, seen) > pos
           /\ \A pos \in LoopPositions :
                  ~check(toks, ParserState(pos), "KEYWORD", "var")
                      \/ LocalVarTurn(pos) > pos
           /\ \A pos \in LoopPositions :
                  (\E precedence \in 0 .. 8 : LedLoopGoesOn(pos, precedence))
                      => LedTurn(pos) > pos
           /\ \A pos \in LoopPositions :
                  ExprListTurnAdvances(pos, parseExpression(toks, ParserState(pos),
                                                            Precedence.LOWEST))

\* parseStatements() has run on a damaged body, recovered from more than one
\* error through synchronize(), and come to the end of the tokens.
C27_Witness ==
    /\ ppc = "statements"
    /\ Len(perrs) >= 2
    /\ AtEof(tpos)
    /\ \E i \in 1 .. Len(toks) : toks[i] \in {"while", "if"}


\* ---- The children of the nodes of an AST.
RECURSIVE CompleteExpr(_), CompleteStmt(_)

\* Every expression of the list is complete.
CompleteExprs(list) == \A i \in 1 .. Len(list) : CompleteExpr(list[i])

\* Every statement of the list is complete.
CompleteStmts(list) == \A i \in 1 .. Len(list) : CompleteStmt(list[i])

\* The expression is a node, and so is every mandatory child below it: both
\* operands of a binary operation, the operand of a unary operation, base and
\* index of an array access, every argument of a call.  The receiver of a call
\* is optional.
CompleteExpr(e) ==
    /\ e # NoNode
    /\ CASE e.k = "binary" -> CompleteExpr(e.left) /\ CompleteExpr(e.right)
         [] e.k = "unary" -> CompleteExpr(e.operand)
         [] e.k = "index" -> CompleteExpr(e.array) /\ CompleteExpr(e.index)
         [] e.k = "call" -> /\ e.receiver # NoNode => CompleteExpr(e.receiver)
                            /\ CompleteExprs(e.args)
         [] OTHER -> TRUE

\* The statement is a node with its mandatory children: the value of a let,
\* the condition of an if or a while, the call of a do.  The index of a let and
\* the value of a return are optional.
CompleteStmt(st) ==
    /\ st # NoNode
    /\ CASE st.k = "let" -> /\ CompleteExpr(st.value)
                            /\ st.index # NoNode => CompleteExpr(st.index)
         [] st.k = "if" -> /\ CompleteExpr(st.condition)
                           /\ CompleteStmts(st.ifBranch)
                           /\ CompleteStmts(st.elseBranch)
         [] st.k = "while" -> CompleteExpr(st.condition) /\ CompleteStmts(st.body)
         [] st.k = "do" -> CompleteExpr(st.call)
         [] st.k = "return" -> st.value # NoNode => CompleteExpr(st.value)
         [] OTHER -> TRUE

\* C28: when the parser has recorded no error, every node it returned has all
\* its mandatory children: a null child occurs only in a parse with at least
\* one error.
C28_NoNullChildWithoutError ==
    (ppc = "statements" /\ perrs = <<>>) => CompleteStmts(past)

\* A body parsed without an error whose statement holds an operation.
C28_Witness ==
    /\ ppc = "statements"
    /\ perrs = <<>>
    /\ \E i \in 1 .. Len(past) :
           \/ past[i].k = "let" /\ past[i].value.k = "binary"
           \/ past[i].k = "while" /\ past[i].condition.k = "unary"

\* A body whose parse recorded an error and returned a node with a null child.
C28_NullChildWithError ==
    /\ ppc = "statements"
    /\ perrs # <<>>
    /\ ~CompleteStmts(past)


\* ---- The end of main and the worker tasks.
\* No task that was dispatched is still running.
NoTaskLive ==
    /\ \A i \in DOMAIN parseTasks : ~TaskLive(parseTasks[i].st)
    /\ \A i \in DOMAIN analysisTasks : ~TaskLive(analysisTasks[i])
    /\ \A i \in DOMAIN compileTasks : ~TaskLive(compileTasks[i])

\* main has returned.
MainReturned == dpc = "exit"

C29_State == (MainReturned \/ report # "none") => NoTaskLive

\* Once main has returned, nothing touches the registry, the units or an output.
C29_Step == MainReturned => UNCHANGED <<classes, methods, units, outputs>>

\* C29: on every path by which main returns, each task that was dispatched has
\* ended before the build result is reported and main returns, and nothing
\* touches the registry, a unit or an output file afterwards.
C29_TasksEndBeforeReturn == [](C29_State) /\ [][C29_Step]_vars

\* main has returned 1 because get() rethrew the exception of an analysis task,
\* and a task it never joined has ended all the same.
C29_Witness ==
    /\ MainReturned
    /\ report = "COMPILATION FAILED"
    /\ di \in DOMAIN analysisTasks
    /\ analysisTasks[di] = "threw"
    /\ \E j \in DOMAIN analysisTasks : j > di /\ FutureReady(analysisTasks[j])
    /\ \A i \in DOMAIN compileTasks : compileTasks[i] = "none"


\* C30 (as claimed): in every registry state, methodExists(c, m) implies that
\* class c was registered through registerClass: no method is visible for a
\* class name that is not in the class set.
C30_MethodsOnlyOfRegisteredClasses ==
    \A c \in DOMAIN methods : \A m \in DOMAIN methods[c] :
        methodExists(methods, c, m) => c \in classes

====
